---- MODULE Spec2Model ----
(***************************************************************************)
(* The per-host KVM guest-instance controller of cloudpods (package        *)
(* guestman): the stop script and its execution, the start script and the  *)
(* double-fork launcher, the unification of two hypervisor command lines   *)
(* for live migration, and the reconstruction of the memory description    *)
(* from the memory devices a running hypervisor reports.                   *)
(*                                                                         *)
(* Each part has its own specification over the shared variables:          *)
(*   SpecStop   one or two runs of the stop script on any file state       *)
(*   SpecStart  the launcher running the start script and forking twice    *)
(*   SpecUnify  unifyMigrateQemuCmdline on bounded command lines           *)
(*   SpecMem    initMemDescFromMemoryInfo on bounded device lists          *)
(*   SpecRender initCpuDesc, then generateStartScript called twice and the *)
(*              launch command the rendered script composes                *)
(*   SpecScripts  the three script generators on hosts that lack a bridge  *)
(*   SpecPorts  the monitor ports of two guests rendered on one host       *)
(*   SpecTwo    the hugepage commands of two guests' scripts, interleaved  *)
(*   SpecArp    the goroutine StartPresendArp starts; SpecArpLive adds the *)
(*              fairness of its steps                                      *)
(*   SpecUsb    the USB input devices generateStartScript adds             *)
(*                                                                         *)
(* The managed-cloud guest driver (package guestdrivers) and the Huawei    *)
(* load balancer (package huawei) have theirs:                             *)
(*   SpecManaged  RemoteDeployGuestForCreate, ForDeploy or ForRebuildRoot, *)
(*              one call; SpecManagedLive adds the fairness of its steps   *)
(*   SpecUndeploy  RequestUndeployGuestOnHost on bounded lists of disks    *)
(*   SpecLb     SLoadbalancer.Delete on bounded pools and listeners        *)
(***************************************************************************)
EXTENDS Integers, Sequences, FiniteSets, TLC

VARIABLES
    \* the guest descriptor (s.Desc.Nics) and the host's bridge devices
    nics, hostBridges,
    \* the per-guest files, the live processes and the hugepage directories
    vncFile, pidFile, alive, hugeDirs, mounts,
    \* one run of the stop script
    stopState, stopScript, stopPc, stopArg, stopLog, stopRun, stopAtStart, stopFirst,
    \* one start: the inputs, the start script being run, the launcher (l), its
    \* first child (c) and the detached grandchild (g)
    startIn, startScript, startPc, startLog, lPc, cPc, gPc, gPid, lStdout, lExit, cExit,
    \* unifyMigrateQemuCmdline: the two command lines, the result, and the
    \* result of unifying the result with the source again
    uCur, uSrc, uPc, uRes, uRes2,
    \* initMemDescFromMemoryInfo: Desc.Mem, Desc.MemDesc, the host's memory
    \* backend, the reported devices, the returned error
    mMem, mMemDesc, mBackend, mDevs, mRet,
    \* rendering: the descriptor before and after initCpuDesc, the host's
    \* architecture, s.LiveMigrateUseTls, the encryption key file, the saved
    \* state file, the data of the call, the results of the calls, and the
    \* launch command the script composes
    rDesc0, rDesc, rAarch64, rTls, rKeyFile, rStateFile, rPc, rData, rOuts, rCmd,
    \* the results of calls of the script generators
    sOuts,
    \* two guests on one host: their VNC ports and rendered monitors
    pVnc, pMon,
    \* two guests on one host: where each is in its start or stop script, the
    \* directories its stop loop still has to visit, and the directories each
    \* has mounted and has unmounted or removed
    tPc, tTodo, tMounted, tRemoved,
    \* StartPresendArp's goroutine: where it is, the round i, the index of the
    \* NIC in s.Desc.Nics, the attempts made and each NIC's first failed attempt
    aPc, aRound, aIdx, aSent, aFailed,
    \* the USB devices of generateStartScript: the input and the devices
    bIn, bDevs,
    \* lockman's lock on the guest
    lockHeld,
    \* RemoteDeployGuestForCreate: options.Options.EnableAutoSwitchServerSku,
    \* the SKUs GetSkus returns, oldSku, desc.InstanceType, guest.InstanceType,
    \* guest.ExternalId, the CreateVM calls made, the loop index, err, the result
    kPc, kAuto, kSkus, kOld, kType, kGuestType, kExtId, kTries, kI, kErr, kRet,
    \* RemoteDeployGuestForDeploy: __delete_keypair__, the caller's
    \* desc.Password and desc.PublicKey, the arguments DeployVM was called with,
    \* the credentials handed to fetchIVMinfo, the result
    dPc, dDelKey, dPass, dKey, dArgs, dData, dRet,
    \* RemoteDeployGuestForRebuildRoot: len(desc.DataDisks), the disk id
    \* RebuildRoot returned, waited, the number of GetIDisks calls, what the
    \* last of them returned, the result
    wPc, wDataDisks, wDiskId, wWaited, wPolls, wSeen, wRet,
    \* RequestUndeployGuestOnHost: guest.ExternalId, the guest's disks, the
    \* loop index, the cloud calls made, the task's result
    nPc, nExtId, nDisks, nI, nCalls, nRet,
    \* SLoadbalancer.Delete: self.Pools, self.Listeners, the loop indexes, the
    \* backends of the pool at hand, the region calls that succeeded, the result
    ePc, ePools, eListeners, eI, eJ, eBackends, eLog, eRet

hostVars == <<nics, hostBridges, vncFile, pidFile, alive, hugeDirs, mounts>>
stopVars == <<stopState, stopScript, stopPc, stopArg, stopLog, stopRun, stopAtStart, stopFirst>>
startVars == <<startIn, startScript, startPc, startLog, lPc, cPc, gPc, gPid,
               lStdout, lExit, cExit>>
unifyVars == <<uCur, uSrc, uPc, uRes, uRes2>>
memVars == <<mMem, mMemDesc, mBackend, mDevs, mRet>>
renderVars == <<rDesc0, rDesc, rAarch64, rTls, rKeyFile, rStateFile, rPc, rData,
                rOuts, rCmd>>
scriptsVars == <<sOuts>>
portsVars == <<pVnc, pMon>>
twoVars == <<tPc, tTodo, tMounted, tRemoved>>
arpVars == <<aPc, aRound, aIdx, aSent, aFailed>>
usbVars == <<bIn, bDevs>>
lockVars == <<lockHeld>>
createVars == <<kPc, kAuto, kSkus, kOld, kType, kGuestType, kExtId, kTries, kI, kErr, kRet>>
deployVars == <<dPc, dDelKey, dPass, dKey, dArgs, dData, dRet>>
rebuildVars == <<wPc, wDataDisks, wDiskId, wWaited, wPolls, wSeen, wRet>>
undeployVars == <<nPc, nExtId, nDisks, nI, nCalls, nRet>>
lbVars == <<ePc, ePools, eListeners, eI, eJ, eBackends, eLog, eRet>>
\* the guest manager's parts other than the host's files and processes
guestVars == <<stopVars, startVars, unifyVars, memVars, renderVars, scriptsVars,
               portsVars, twoVars>>
\* the cloud drivers' parts
managedVars == <<lockVars, createVars, deployVars, rebuildVars>>
cloudVars == <<managedVars, undeployVars, lbVars>>
vars == <<hostVars, stopVars, startVars, unifyVars, memVars,
          renderVars, scriptsVars, portsVars, twoVars,
          arpVars, usbVars, cloudVars>>

\* what the actions of one part leave alone
notStop == <<startVars, unifyVars, memVars, renderVars, scriptsVars, portsVars, twoVars,
    arpVars, usbVars, cloudVars>>
notStart == <<stopVars, unifyVars, memVars, renderVars, scriptsVars, portsVars, twoVars,
    arpVars, usbVars, cloudVars>>
notUnify == <<hostVars, stopVars, startVars, memVars, renderVars, scriptsVars,
              portsVars, twoVars,
    arpVars, usbVars, cloudVars>>
notMem == <<hostVars, stopVars, startVars, unifyVars, renderVars, scriptsVars,
            portsVars, twoVars,
    arpVars, usbVars, cloudVars>>
notRender == <<hostVars, stopVars, startVars, unifyVars, memVars, scriptsVars,
               portsVars, twoVars,
    arpVars, usbVars, cloudVars>>
notScripts == <<hostVars, stopVars, startVars, unifyVars, memVars, renderVars,
                portsVars, twoVars,
    arpVars, usbVars, cloudVars>>
notPorts == <<hostVars, stopVars, startVars, unifyVars, memVars, renderVars,
              scriptsVars, twoVars,
    arpVars, usbVars, cloudVars>>
notTwo == <<stopVars, startVars, unifyVars, memVars, renderVars, scriptsVars,
            portsVars,
    arpVars, usbVars, cloudVars>>
notArp == <<hostVars, guestVars, usbVars, cloudVars>>
notUsb == <<hostVars, guestVars, arpVars, cloudVars>>
notCreate == <<hostVars, guestVars, arpVars, usbVars, deployVars, rebuildVars,
               undeployVars, lbVars>>
notDeploy == <<hostVars, guestVars, arpVars, usbVars, createVars, rebuildVars,
               undeployVars, lbVars>>
notRebuild == <<hostVars, guestVars, arpVars, usbVars, createVars, deployVars,
                undeployVars, lbVars>>
notUndeploy == <<hostVars, guestVars, arpVars, usbVars, managedVars, lbVars>>
notLb == <<hostVars, guestVars, arpVars, usbVars, managedVars, undeployVars>>

----------------------------------------------------------------------------
(* Bounds of the model *)

\* NICs in a descriptor
MaxNics == 2
\* process ids the host hands out
MaxPid == 2
\* memory devices the hypervisor reports
MaxMemDevs == 2
\* the descriptor's memory, in MB
MaxMemMB == 3
\* the size of a reported device, in half megabytes
MaxHalfMBs == 4
\* options in the current host's command line
MaxCurOpts == 2
\* options in the migration source's command line
MaxSrcOpts == 2

----------------------------------------------------------------------------
(* Files, strings *)

\* A file is absent, or holds one value.
NoFile == <<>>
FileOf(x) == <<x>>

\* The proper prefixes among the strings of the model: strings.HasPrefix and
\* the shell glob "prefix*" restricted to this vocabulary.
ProperPrefixes ==
    { <<"uuid-a-1", "uuid-a">>,
      <<"tcp:0:4396", "tcp:">>,
      <<"socket,id=hmqmondev,port=55901", "socket,id=hmqmondev">>,
      <<"socket,id=hmqmondev,port=55902", "socket,id=hmqmondev">> }

HasPrefix(s, p) == s = p \/ <<s, p>> \in ProperPrefixes

Range(q) == { q[i] : i \in 1..Len(q) }

\* The sequences over S without repetition, of at most n elements.
RECURSIVE DistinctSeqs(_, _)
DistinctSeqs(S, n) ==
    IF n = 0 THEN { <<>> }
    ELSE LET shorter == DistinctSeqs(S, n - 1)
             longest == { r \in shorter : Len(r) = n - 1 }
         IN  shorter \cup
             { Append(p[1], p[2]) :
                 p \in { c \in longest \X S : c[2] \notin Range(c[1]) } }

----------------------------------------------------------------------------
(* The guest descriptor and the host *)

NETWORK_DRIVER_VFIO == "vfio-pci"

\* the guest's UUID (s.Desc.Uuid)
Uuid == "uuid-a"

\* the NICs a descriptor may hold: desc.SGuestNetwork{Ifname, Driver, Bridge}
NicPool ==
    { [Ifname |-> "tap0", Driver |-> "virtio", Bridge |-> "br0"],
      [Ifname |-> "tap1", Driver |-> NETWORK_DRIVER_VFIO, Bridge |-> "br0"],
      [Ifname |-> "tap2", Driver |-> "e1000", Bridge |-> "br1"] }

NicLists == DistinctSeqs(NicPool, MaxNics)

\* the bridges the host may have a device for; br1 may be missing
BridgeSets == { {"br0"}, {"br0", "br1"} }

\* s.manager.GetHost().GetBridgeDev(bridge): nil when the host has no device
GetBridgeDev(bridge) == IF bridge \in hostBridges THEN FileOf(bridge) ELSE NoFile

\* getNicDownScriptPath: HomeDir/if-down-<dev.Bridge()>-<Ifname>.sh; dev.Bridge()
\* on a nil device panics
getNicDownScriptPath(nic) ==
    LET dev == GetBridgeDev(nic.Bridge)
    IN  IF dev = NoFile
          THEN [panic |-> TRUE, path |-> <<>>]
          ELSE [panic |-> FALSE, path |-> <<"if-down", dev[1], nic.Ifname>>]

Pids == 1..MaxPid
\* the VNC ports (displays) a guest may have been given
VncPorts == {1}

\* the directories /dev/hugepages may hold, in the order ls lists them: the
\* guest's own, one whose name the guest's UUID prefixes, another guest's
HugeDirOrder == <<"uuid-a", "uuid-a-1", "uuid-b">>
HugeDirNames == Range(HugeDirOrder)

----------------------------------------------------------------------------
(* generateStopScript: the stop script as the list of its commands *)

\* the HMP monitor port is the VNC port plus this base
MONITOR_PORT_BASE == 55900

Line(op, what, path, n) == [op |-> op, what |-> what, path |-> path, n |-> n]
Ev(ev, what, n) == [ev |-> ev, what |-> what, n |-> n]

\* for _, nic := range nics: a VFIO NIC is skipped, any other NIC gets the
\* line "<downscript> <ifname>" (the same loop opens the start script)
RECURSIVE nicDownLines(_, _)
nicDownLines(ns, i) ==
    IF i > Len(ns) THEN [panic |-> FALSE, lines |-> <<>>]
    ELSE LET rest == nicDownLines(ns, i + 1)
         IN  IF ns[i].Driver = NETWORK_DRIVER_VFIO THEN rest
             ELSE LET p == getNicDownScriptPath(ns[i])
                  IN  [panic |-> p.panic \/ rest.panic,
                       lines |-> <<Line("down", ns[i].Ifname, p.path, 0)>>
                                   \o rest.lines]

\* the script with the NIC down-scripts first: a mutant of generateStopScript
generateStopScriptDownFirst(uuid, ns) ==
    LET downs == nicDownLines(ns, 1)
    IN  [panic |-> downs.panic,
         lines |-> <<Line("graceful", "", <<>>, MONITOR_PORT_BASE),
                     Line("killpid", "", <<>>, 0)>>
                   \o downs.lines
                   \o <<Line("hugepages", uuid, <<>>, 0)>>]

\* the script with the down-script of every NIC but the last: a mutant
generateStopScriptDropLast(uuid, ns) ==
    LET downs == nicDownLines(ns, 1)
    IN  [panic |-> downs.panic,
         lines |-> <<Line("graceful", "", <<>>, MONITOR_PORT_BASE),
                     Line("killpid", "", <<>>, 0),
                     Line("hugepages", uuid, <<>>, 0)>>
                   \o (IF downs.lines = <<>> THEN <<>>
                       ELSE SubSeq(downs.lines, 1, Len(downs.lines) - 1))]

\* The script, in the order the code appends its parts: the graceful block
\* (if not --force and the VNC file exists: quit to the monitor, remove the
\* VNC file), the PID block (kill -9 when alive, remove the PID file), the
\* loop over /dev/hugepages/<uuid>*, then the NIC down-scripts.
generateStopScript(uuid, ns) ==
    LET downs == nicDownLines(ns, 1)
    IN  [panic |-> downs.panic,
         lines |-> <<Line("graceful", "", <<>>, MONITOR_PORT_BASE),
                     Line("killpid", "", <<>>, 0),
                     Line("hugepages", uuid, <<>>, 0)>>
                   \o downs.lines]

----------------------------------------------------------------------------
(* Running the stop script *)

HostFiles ==
    [vnc |-> vncFile, pid |-> pidFile, alive |-> alive,
     dirs |-> hugeDirs, mounts |-> mounts]

AtStopLine(op) ==
    /\ stopState = "running"
    /\ stopPc <= Len(stopScript)
    /\ stopScript[stopPc].op = op

\* The caller renders the script and runs it, with or without --force. A
\* second run follows a completed first one.
StopStart ==
    /\ stopState \in {"idle", "done"}
    /\ stopRun < 2
    /\ \E arg \in {"", "--force"} :
         LET gen == generateStopScript(Uuid, nics)
         IN  /\ stopArg' = arg
             /\ stopState' = IF gen.panic THEN "panic" ELSE "running"
             /\ stopScript' = IF gen.panic THEN <<>> ELSE gen.lines
    /\ stopPc' = 1
    /\ stopLog' = <<>>
    /\ stopRun' = stopRun + 1
    /\ stopAtStart' = HostFiles
    /\ stopFirst' = IF stopRun = 1
                      THEN <<[arg |-> stopArg, atStart |-> stopAtStart,
                              atEnd |-> HostFiles, log |-> stopLog]>>
                      ELSE stopFirst
    /\ UNCHANGED hostVars
    /\ UNCHANGED notStop

\* the graceful block that also runs under --force: a mutant of ExecGraceful
ExecGracefulIgnoringForce ==
    /\ AtStopLine("graceful")
    /\ IF vncFile # NoFile
         THEN /\ \E gone \in { g \in SUBSET alive : Cardinality(g) <= 1 } :
                    alive' = alive \ gone
              /\ stopLog' = Append(stopLog,
                     Ev("quit", "", vncFile[1] + stopScript[stopPc].n))
              /\ vncFile' = NoFile
         ELSE UNCHANGED <<alive, stopLog, vncFile>>
    /\ stopPc' = stopPc + 1
    /\ UNCHANGED <<nics, hostBridges, pidFile, hugeDirs, mounts>>
    /\ UNCHANGED <<stopState, stopScript, stopArg, stopRun, stopAtStart, stopFirst>>
    /\ UNCHANGED notStop

\* if [ "$1" != "--force" ] && [ -f $VNC_FILE ]: MON = VNC + MONITOR_PORT_BASE,
\* echo quit | nc -w 1 127.0.0.1 $MON, sleep 1, rm -f $VNC_FILE. The process
\* listening on the monitor port, if any, exits on quit or is still there
\* after the sleep.
ExecGraceful ==
    /\ AtStopLine("graceful")
    /\ IF stopArg # "--force" /\ vncFile # NoFile
         THEN /\ \E gone \in { g \in SUBSET alive : Cardinality(g) <= 1 } :
                    alive' = alive \ gone
              /\ stopLog' = Append(stopLog,
                     Ev("quit", "", vncFile[1] + stopScript[stopPc].n))
              /\ vncFile' = NoFile
         ELSE UNCHANGED <<alive, stopLog, vncFile>>
    /\ stopPc' = stopPc + 1
    /\ UNCHANGED <<nics, hostBridges, pidFile, hugeDirs, mounts>>
    /\ UNCHANGED <<stopState, stopScript, stopArg, stopRun, stopAtStart, stopFirst>>
    /\ UNCHANGED notStop

\* the PID block that leaves the PID file in place: a mutant of ExecKillPid
ExecKillPidKeepFile ==
    /\ AtStopLine("killpid")
    /\ IF pidFile # NoFile
         THEN /\ alive' = alive \ {pidFile[1]}
              /\ stopLog' = IF pidFile[1] \in alive
                              THEN Append(stopLog, Ev("kill", "", pidFile[1]))
                              ELSE stopLog
         ELSE UNCHANGED <<alive, stopLog>>
    /\ stopPc' = stopPc + 1
    /\ UNCHANGED <<nics, hostBridges, vncFile, pidFile, hugeDirs, mounts>>
    /\ UNCHANGED <<stopState, stopScript, stopArg, stopRun, stopAtStart, stopFirst>>
    /\ UNCHANGED notStop

\* if [ -f $PID_FILE ]: PID=`cat $PID_FILE`; ps -p $PID and, when it is alive,
\* kill -9 $PID; rm -f $PID_FILE
ExecKillPid ==
    /\ AtStopLine("killpid")
    /\ IF pidFile # NoFile
         THEN /\ alive' = alive \ {pidFile[1]}
              /\ stopLog' = IF pidFile[1] \in alive
                              THEN Append(stopLog, Ev("kill", "", pidFile[1]))
                              ELSE stopLog
              /\ pidFile' = NoFile
         ELSE UNCHANGED <<alive, stopLog, pidFile>>
    /\ stopPc' = stopPc + 1
    /\ UNCHANGED <<nics, hostBridges, vncFile, hugeDirs, mounts>>
    /\ UNCHANGED <<stopState, stopScript, stopArg, stopRun, stopAtStart, stopFirst>>
    /\ UNCHANGED notStop

\* the glob that lists every directory of /dev/hugepages: a mutant
globHugeDirsAll(prefix) == hugeDirs

\* the directories ls -d /dev/hugepages/<prefix>* lists and [ -d $d ] accepts
globHugeDirs(prefix) == { d \in hugeDirs : HasPrefix(d, prefix) }

\* umount $d (an error when $d is no mount point), then rm -rf $d, for the
\* listed directories from the i-th name of ls's order on
RECURSIVE hugepageEvents(_, _)
hugepageEvents(prefix, i) ==
    IF i > Len(HugeDirOrder) THEN <<>>
    ELSE LET d == HugeDirOrder[i]
         IN  (IF d \in globHugeDirs(prefix)
                THEN <<Ev(IF d \in mounts THEN "umount" ELSE "umount_err", d, 0),
                       Ev("rmdir", d, 0)>>
                ELSE <<>>)
             \o hugepageEvents(prefix, i + 1)

\* for d in $(ls -d /dev/hugepages/<uuid>*); do if [ -d $d ]; then umount $d;
\* rm -rf $d; fi; done
ExecHugepages ==
    /\ AtStopLine("hugepages")
    /\ stopLog' = stopLog \o hugepageEvents(stopScript[stopPc].what, 1)
    /\ hugeDirs' = hugeDirs \ globHugeDirs(stopScript[stopPc].what)
    /\ mounts' = mounts \ globHugeDirs(stopScript[stopPc].what)
    /\ stopPc' = stopPc + 1
    /\ UNCHANGED <<nics, hostBridges, vncFile, pidFile, alive>>
    /\ UNCHANGED <<stopState, stopScript, stopArg, stopRun, stopAtStart, stopFirst>>
    /\ UNCHANGED notStop

\* "<downscript> <ifname>": the NIC's down-script runs
ExecDownScript ==
    /\ AtStopLine("down")
    /\ stopLog' = Append(stopLog, Ev("down", stopScript[stopPc].what, 0))
    /\ stopPc' = stopPc + 1
    /\ UNCHANGED hostVars
    /\ UNCHANGED <<stopState, stopScript, stopArg, stopRun, stopAtStart, stopFirst>>
    /\ UNCHANGED notStop

\* the script has run its last command
StopExit ==
    /\ stopState = "running"
    /\ stopPc > Len(stopScript)
    /\ stopState' = "done"
    /\ UNCHANGED hostVars
    /\ UNCHANGED <<stopScript, stopPc, stopArg, stopLog, stopRun, stopAtStart, stopFirst>>
    /\ UNCHANGED notStop

InitHost ==
    /\ nics \in NicLists
    /\ hostBridges \in BridgeSets
    /\ vncFile \in {NoFile} \cup { FileOf(p) : p \in VncPorts }
    /\ pidFile \in {NoFile} \cup { FileOf(p) : p \in Pids }
    /\ alive \in SUBSET Pids
    /\ hugeDirs \in SUBSET HugeDirNames
    /\ mounts \in SUBSET hugeDirs
    \* another guest's directory, while it exists, is mounted
    /\ "uuid-b" \in hugeDirs => "uuid-b" \in mounts

StopIdle ==
    /\ stopState = "idle"
    /\ stopScript = <<>>
    /\ stopPc = 0
    /\ stopArg = ""
    /\ stopLog = <<>>
    /\ stopRun = 0
    /\ stopAtStart = <<>>
    /\ stopFirst = <<>>

StartIdle ==
    /\ startIn = <<>>
    /\ startScript = <<>>
    /\ startPc = 0
    /\ startLog = <<>>
    /\ lPc = "idle"
    /\ cPc = "none"
    /\ gPc = "none"
    /\ gPid = 0
    /\ lStdout = NoFile
    /\ lExit = NoFile
    /\ cExit = NoFile

UnifyIdle ==
    /\ uCur = <<>>
    /\ uSrc = <<>>
    /\ uPc = "idle"
    /\ uRes = <<>>
    /\ uRes2 = <<>>

MemIdle ==
    /\ mMem = 0
    /\ mMemDesc = NoFile
    /\ mBackend = ""
    /\ mDevs = <<>>
    /\ mRet = "idle"

RenderIdle ==
    /\ rDesc0 = <<>>
    /\ rDesc = <<>>
    /\ rAarch64 = FALSE
    /\ rTls = FALSE
    /\ rKeyFile = NoFile
    /\ rStateFile = "none"
    /\ rPc = "idle"
    /\ rData = <<>>
    /\ rOuts = <<>>
    /\ rCmd = NoFile

ScriptsIdle == sOuts = <<>>

PortsIdle ==
    /\ pVnc = <<>>
    /\ pMon = <<>>

TwoIdle ==
    /\ tPc = <<>>
    /\ tTodo = <<>>
    /\ tMounted = <<>>
    /\ tRemoved = <<>>

ArpIdle ==
    /\ aPc = "idle"
    /\ aRound = 0
    /\ aIdx = 1
    /\ aSent = {}
    /\ aFailed = {}

UsbIdle ==
    /\ bIn = <<>>
    /\ bDevs = NoFile

CreateIdle ==
    /\ kPc = "idle"
    /\ kAuto = FALSE
    /\ kSkus = <<>>
    /\ kOld = ""
    /\ kType = ""
    /\ kGuestType = ""
    /\ kExtId = ""
    /\ kTries = <<>>
    /\ kI = 1
    /\ kErr = FALSE
    /\ kRet = "none"

DeployIdle ==
    /\ dPc = "idle"
    /\ dDelKey = FALSE
    /\ dPass = ""
    /\ dKey = ""
    /\ dArgs = NoFile
    /\ dData = NoFile
    /\ dRet = "none"

RebuildIdle ==
    /\ wPc = "idle"
    /\ wDataDisks = 0
    /\ wDiskId = ""
    /\ wWaited = 0
    /\ wPolls = 0
    /\ wSeen = <<>>
    /\ wRet = "none"

UndeployIdle ==
    /\ nPc = "idle"
    /\ nExtId = ""
    /\ nDisks = <<>>
    /\ nI = 1
    /\ nCalls = <<>>
    /\ nRet = "none"

LbIdle ==
    /\ ePc = "idle"
    /\ ePools = <<>>
    /\ eListeners = <<>>
    /\ eI = 1
    /\ eJ = 1
    /\ eBackends = <<>>
    /\ eLog = <<>>
    /\ eRet = "none"

\* the cloud drivers' parts are idle
CloudIdle ==
    /\ lockHeld = FALSE
    /\ CreateIdle
    /\ DeployIdle
    /\ RebuildIdle
    /\ UndeployIdle
    /\ LbIdle

\* the parts added after the first four are idle
LaterIdle == RenderIdle /\ ScriptsIdle /\ PortsIdle /\ TwoIdle

\* the parts of the last sections are idle
LastIdle == ArpIdle /\ UsbIdle /\ CloudIdle

InitStop == InitHost /\ StopIdle /\ StartIdle /\ UnifyIdle /\ MemIdle /\ LaterIdle /\ LastIdle

NextStop ==
    \/ StopStart
    \/ ExecGraceful
    \/ ExecKillPid
    \/ ExecHugepages
    \/ ExecDownScript
    \/ StopExit

SpecStop == InitStop /\ [][NextStop]_vars

----------------------------------------------------------------------------
(* The stop script: claims C1, C2, C8, C9, C10 *)

StopDone == stopState = "done"
StopForced == stopArg = "--force"
HugepageEvs == {"umount", "umount_err", "rmdir"}
LogHas(ev) == \E i \in 1..Len(stopLog) : stopLog[i].ev = ev

\* the Ifnames of the NICs of ns that are not VFIO NICs, in list order
RECURSIVE NonVfioIfnames(_)
NonVfioIfnames(ns) ==
    IF ns = <<>> THEN <<>>
    ELSE (IF Head(ns).Driver = NETWORK_DRIVER_VFIO THEN <<>>
          ELSE <<Head(ns).Ifname>>) \o NonVfioIfnames(Tail(ns))

\* the NICs whose down-script the log shows, in the order they ran
RECURSIVE DownsOf(_)
DownsOf(log) ==
    IF log = <<>> THEN <<>>
    ELSE (IF Head(log).ev = "down" THEN <<Head(log).what>> ELSE <<>>)
         \o DownsOf(Tail(log))

\* C1 as stated: in the stop script and in its run, every NIC down-script
\* comes before any unmount or removal of a hugepage directory.
C1_DownBeforeUnmount ==
    /\ \A i, j \in 1..Len(stopScript) :
         (stopScript[i].op = "down" /\ stopScript[j].op = "hugepages") => i < j
    /\ \A i, j \in 1..Len(stopLog) :
         (stopLog[i].ev = "down" /\ stopLog[j].ev \in HugepageEvs) => i < j

\* C1 amended: in the stop script and in its run, forced or not, the loop
\* that unmounts and removes the guest's hugepage directories comes before
\* every NIC down-script.
C1_UnmountBeforeDown ==
    /\ \A i, j \in 1..Len(stopScript) :
         (stopScript[i].op = "down" /\ stopScript[j].op = "hugepages") => j < i
    /\ \A i, j \in 1..Len(stopLog) :
         (stopLog[i].ev = "down" /\ stopLog[j].ev \in HugepageEvs) => j < i

C1_Witness ==
    /\ StopDone
    /\ LogHas("down")
    /\ LogHas("umount")

C9_EveryNicDown ==
    StopDone =>
        \A i \in 1..Len(nics) :
            \E k \in 1..Len(stopLog) :
                stopLog[k].ev = "down" /\ stopLog[k].what = nics[i].Ifname

\* C9 amended: a completed run of a generated stop script has invoked,
\* once each and in list order, the down-scripts of exactly the NICs whose
\* driver is not VFIO, whatever the force flag and the files are.
C9_EveryNonVfioNicDown ==
    StopDone => DownsOf(stopLog) = NonVfioIfnames(nics)

C9_Witness ==
    /\ StopDone
    /\ StopForced
    /\ stopAtStart.pid = NoFile
    /\ \E i \in 1..Len(nics) : nics[i].Driver = NETWORK_DRIVER_VFIO
    /\ \E i \in 1..Len(nics) : nics[i].Driver # NETWORK_DRIVER_VFIO
    /\ LogHas("down")

\* C10 as stated: in a non-forced stop every kill signal is preceded by a
\* quit sent to the monitor port; a forced stop sends no quit.
C10_QuitBeforeKill ==
    StopDone =>
        /\ ~StopForced =>
             \A j \in 1..Len(stopLog) :
                 stopLog[j].ev = "kill" =>
                     \E i \in 1..(j - 1) : stopLog[i].ev = "quit"
        /\ StopForced => ~LogHas("quit")

\* C10 amended: a non-forced stop that finds the VNC marker file sends one
\* quit, to the port VNC + MONITOR_PORT_BASE, before any kill signal; a
\* non-forced stop that finds no VNC marker file sends no quit and goes
\* straight to the signal; a forced stop sends no quit; and a kill signal is
\* sent only to the recorded PID, only when that process was alive, and it
\* is not alive afterwards.
C10_QuitBeforeKillWhenVncKnown ==
    StopDone =>
        /\ (~StopForced /\ stopAtStart.vnc # NoFile) =>
             /\ stopLog # <<>>
             /\ stopLog[1] = Ev("quit", "", stopAtStart.vnc[1] + MONITOR_PORT_BASE)
        /\ (StopForced \/ stopAtStart.vnc = NoFile) => ~LogHas("quit")
        /\ \A j \in 1..Len(stopLog) :
             /\ stopLog[j].ev = "quit" => j = 1
             /\ stopLog[j].ev = "kill" =>
                  /\ stopAtStart.pid = FileOf(stopLog[j].n)
                  /\ stopLog[j].n \in stopAtStart.alive
                  /\ stopLog[j].n \notin alive

C10_Witness ==
    /\ StopDone
    /\ ~StopForced
    /\ Len(stopLog) >= 2
    /\ stopLog[1].ev = "quit"
    /\ stopLog[2].ev = "kill"

SecondDone == stopRun = 2 /\ StopDone

\* the log of a run in which only the NIC down-scripts acted
DownsLog == [i \in 1..Len(NonVfioIfnames(nics)) |-> Ev("down", NonVfioIfnames(nics)[i], 0)]

----------------------------------------------------------------------------
(* generateStartScript: the commands of the start script that act on the host *)

\* what can make the rendering fail: saving the encryption key, the disk
\* setup scripts, the SR-IOV init scripts, the hypervisor options
GenErrs == {"none", "encrypt_key", "disk", "sriov", "options"}

\* the inputs of one start: data's vnc_port, the host's hugepage support, and
\* which collaborator, if any, fails
StartInputs ==
    [vnc_port : VncPorts, hugepages : BOOLEAN, genErr : GenErrs]

StartLines(ns, in) ==
    nicDownLines(ns, 1).lines
    \o (IF in.hugepages
          THEN <<Line("mkdir_hp", Uuid, <<>>, 0), Line("mount_hp", Uuid, <<>>, 0)>>
          ELSE <<>>)
    \o <<Line("sleep", "", <<>>, 1),
         Line("write_vnc", "", <<>>, in.vnc_port),
         Line("setup", "", <<>>, 0),
         Line("echo_cmd", "", <<>>, 0)>>

\* the start script that does not write the VNC marker: a mutant
generateStartScriptNoVnc(ns, in) ==
    [err |-> in.genErr # "none",
     panic |-> in.genErr # "encrypt_key" /\ nicDownLines(ns, 1).panic,
     lines |-> SelectSeq(StartLines(ns, in), LAMBDA l : l.op # "write_vnc")]

\* The script, in the order the code appends its parts: the NIC down-scripts
\* (VFIO NICs skipped), mkdir and mount of /dev/hugepages/<uuid> when the
\* host has hugepages, sleep 1, echo <vnc port> > <VNC file>, the disk setup
\* and SR-IOV init scripts, the variables and helper functions, CMD=..., and
\* last echo $CMD. An error of a collaborator returns ("", err); a NIC whose
\* bridge has no device panics in getNicDownScriptPath.
generateStartScript(ns, in) ==
    [err |-> in.genErr # "none",
     panic |-> in.genErr # "encrypt_key" /\ nicDownLines(ns, 1).panic,
     lines |-> StartLines(ns, in)]

----------------------------------------------------------------------------
(* guestLauncher: the start script is run, then the double fork *)

AtStartLine(ops) ==
    /\ lPc = "script"
    /\ startPc <= Len(startScript)
    /\ startScript[startPc].op \in ops

\* The caller renders the start script; with an error (or a panic) nothing
\* is launched. Otherwise the launcher starts with
\* subprocess.check_output(['bash', <script>]).
LauncherStart ==
    /\ lPc = "idle"
    /\ \E in \in StartInputs :
         LET gen == generateStartScript(nics, in)
         IN  /\ startIn' = in
             /\ lPc' = IF gen.err \/ gen.panic THEN "render_failed" ELSE "script"
             /\ startScript' = IF gen.err \/ gen.panic THEN <<>> ELSE gen.lines
    /\ startPc' = 1
    /\ UNCHANGED <<startLog, cPc, gPc, gPid, lStdout, lExit, cExit>>
    /\ UNCHANGED hostVars
    /\ UNCHANGED notStart

\* "<downscript> <ifname>"
ExecStartDown ==
    /\ AtStartLine({"down"})
    /\ startLog' = Append(startLog, Ev("down", startScript[startPc].what, 0))
    /\ startPc' = startPc + 1
    /\ UNCHANGED <<startIn, startScript, lPc, cPc, gPc, gPid, lStdout, lExit, cExit>>
    /\ UNCHANGED hostVars
    /\ UNCHANGED notStart

\* mkdir -p /dev/hugepages/<uuid>
ExecStartMkdir ==
    /\ AtStartLine({"mkdir_hp"})
    /\ hugeDirs' = hugeDirs \cup {startScript[startPc].what}
    /\ startLog' = Append(startLog, Ev("mkdir", startScript[startPc].what, 0))
    /\ startPc' = startPc + 1
    /\ UNCHANGED <<startIn, startScript, lPc, cPc, gPc, gPid, lStdout, lExit, cExit>>
    /\ UNCHANGED <<nics, hostBridges, vncFile, pidFile, alive, mounts>>
    /\ UNCHANGED notStart

\* mount -t hugetlbfs ... /dev/hugepages/<uuid>
ExecStartMount ==
    /\ AtStartLine({"mount_hp"})
    /\ mounts' = IF startScript[startPc].what \in hugeDirs
                   THEN mounts \cup {startScript[startPc].what}
                   ELSE mounts
    /\ startLog' = Append(startLog, Ev("mount", startScript[startPc].what, 0))
    /\ startPc' = startPc + 1
    /\ UNCHANGED <<startIn, startScript, lPc, cPc, gPc, gPid, lStdout, lExit, cExit>>
    /\ UNCHANGED <<nics, hostBridges, vncFile, pidFile, alive, hugeDirs>>
    /\ UNCHANGED notStart

\* echo <vnc port> > <VNC file>
ExecStartWriteVnc ==
    /\ AtStartLine({"write_vnc"})
    /\ vncFile' = FileOf(startScript[startPc].n)
    /\ startLog' = Append(startLog, Ev("write_vnc", "", startScript[startPc].n))
    /\ startPc' = startPc + 1
    /\ UNCHANGED <<startIn, startScript, lPc, cPc, gPc, gPid, lStdout, lExit, cExit>>
    /\ UNCHANGED <<nics, hostBridges, pidFile, alive, hugeDirs, mounts>>
    /\ UNCHANGED notStart

\* sleep 1; the disk setup and SR-IOV init scripts; echo $CMD
ExecStartOther ==
    /\ AtStartLine({"sleep", "setup", "echo_cmd"})
    /\ startLog' = IF startScript[startPc].op = "echo_cmd"
                     THEN Append(startLog, Ev("echo_cmd", "", 0))
                     ELSE startLog
    /\ startPc' = startPc + 1
    /\ UNCHANGED <<startIn, startScript, lPc, cPc, gPc, gPid, lStdout, lExit, cExit>>
    /\ UNCHANGED hostVars
    /\ UNCHANGED notStart

\* check_output raises (bash cannot be run, or ends with a non-zero status):
\* the exception is written to stderr and the launcher exits 1
LauncherScriptFails ==
    /\ lPc = "script"
    /\ lPc' = "exited"
    /\ lExit' = FileOf(1)
    /\ startLog' = Append(startLog, Ev("script_failed", "", 0))
    /\ UNCHANGED <<startIn, startScript, startPc, cPc, gPc, gPid, lStdout, cExit>>
    /\ UNCHANGED hostVars
    /\ UNCHANGED notStart

\* pid = os.fork(): the first child is created and the launcher goes on to
\* os.waitpid; or the fork fails and the launcher exits 1
LauncherFork ==
    /\ lPc = "script"
    /\ startPc > Len(startScript)
    /\ \/ /\ lPc' = "waitpid"
          /\ cPc' = "setsid"
          /\ startLog' = Append(startLog, Ev("fork1", "", 0))
          /\ UNCHANGED lExit
       \/ /\ lPc' = "exited"
          /\ lExit' = FileOf(1)
          /\ startLog' = Append(startLog, Ev("fork1_failed", "", 0))
          /\ UNCHANGED cPc
    /\ UNCHANGED <<startIn, startScript, startPc, gPc, gPid, lStdout, cExit>>
    /\ UNCHANGED hostVars
    /\ UNCHANGED notStart

\* in the first child: os.setsid(), os.chdir('/'), pid = os.fork(): the
\* grandchild is created with a fresh PID; or the fork fails and the child
\* exits 1
ChildFork ==
    /\ cPc = "setsid"
    /\ \/ \E p \in Pids \ alive :
            /\ gPid' = p
            /\ alive' = alive \cup {p}
            /\ gPc' = "redirect"
            /\ cPc' = "print"
            /\ startLog' = Append(startLog, Ev("fork2", "", p))
            /\ UNCHANGED cExit
       \/ /\ cPc' = "exited"
          /\ cExit' = FileOf(1)
          /\ startLog' = Append(startLog, Ev("fork2_failed", "", 0))
          /\ UNCHANGED <<gPid, alive, gPc>>
    /\ UNCHANGED <<startIn, startScript, startPc, lPc, lStdout, lExit>>
    /\ UNCHANGED <<nics, hostBridges, vncFile, pidFile, hugeDirs, mounts>>
    /\ UNCHANGED notStart

\* in the first child, pid > 0: sys.stdout.write('%d' % pid); sys.exit(0)
ChildPrintPid ==
    /\ cPc = "print"
    /\ lStdout' = FileOf(gPid)
    /\ cPc' = "exited"
    /\ cExit' = FileOf(0)
    /\ startLog' = Append(startLog, Ev("print_pid", "", gPid))
    /\ UNCHANGED <<startIn, startScript, startPc, lPc, gPc, gPid, lExit>>
    /\ UNCHANGED hostVars
    /\ UNCHANGED notStart

\* in the launcher, pid > 0: status_encoded = os.waitpid(pid, 0)[1];
\* sys.exit((status_encoded >> 8) & 0xff)
LauncherWait ==
    /\ lPc = "waitpid"
    /\ cPc = "exited"
    /\ lPc' = "exited"
    /\ lExit' = cExit
    /\ UNCHANGED <<startIn, startScript, startPc, startLog, cPc, gPc, gPid, lStdout, cExit>>
    /\ UNCHANGED hostVars
    /\ UNCHANGED notStart

\* in the grandchild: stdin from /dev/null, stdout and stderr to the log
\* file, the "Run command" line; any of these may raise, and the grandchild
\* then dies
GrandchildRedirect ==
    /\ gPc = "redirect"
    /\ \/ /\ gPc' = "exec"
          /\ UNCHANGED <<alive, startLog>>
       \/ /\ gPc' = "failed"
          /\ alive' = alive \ {gPid}
          /\ startLog' = Append(startLog, Ev("redirect_failed", "", gPid))
    /\ UNCHANGED <<startIn, startScript, startPc, lPc, cPc, gPid, lStdout, lExit, cExit>>
    /\ UNCHANGED <<nics, hostBridges, vncFile, pidFile, hugeDirs, mounts>>
    /\ UNCHANGED notStart

\* os.execv(cmd[0], cmd): the grandchild becomes the hypervisor; or execv
\* raises and the grandchild dies
GrandchildExec ==
    /\ gPc = "exec"
    /\ \/ /\ gPc' = "running"
          /\ startLog' = Append(startLog, Ev("exec", "", gPid))
          /\ UNCHANGED alive
       \/ /\ gPc' = "failed"
          /\ alive' = alive \ {gPid}
          /\ startLog' = Append(startLog, Ev("exec_failed", "", gPid))
    /\ UNCHANGED <<startIn, startScript, startPc, lPc, cPc, gPid, lStdout, lExit, cExit>>
    /\ UNCHANGED <<nics, hostBridges, vncFile, pidFile, hugeDirs, mounts>>
    /\ UNCHANGED notStart

\* the running hypervisor records its PID in the PID file it was given
HypervisorWritesPidFile ==
    /\ gPc = "running"
    /\ pidFile # FileOf(gPid)
    /\ pidFile' = FileOf(gPid)
    /\ startLog' = Append(startLog, Ev("write_pid", "", gPid))
    /\ UNCHANGED <<startIn, startScript, startPc, lPc, cPc, gPc, gPid, lStdout, lExit, cExit>>
    /\ UNCHANGED <<nics, hostBridges, vncFile, alive, hugeDirs, mounts>>
    /\ UNCHANGED notStart

\* Before a start the guest's own hugepage directory may be left over, and
\* stale VNC and PID files may be.
InitStart ==
    /\ InitHost
    /\ hugeDirs \subseteq {Uuid}
    /\ StopIdle
    /\ StartIdle
    /\ UnifyIdle
    /\ MemIdle
    /\ LaterIdle
    /\ LastIdle

NextStart ==
    \/ LauncherStart
    \/ ExecStartDown
    \/ ExecStartMkdir
    \/ ExecStartMount
    \/ ExecStartWriteVnc
    \/ ExecStartOther
    \/ LauncherScriptFails
    \/ LauncherFork
    \/ ChildFork
    \/ ChildPrintPid
    \/ LauncherWait
    \/ GrandchildRedirect
    \/ GrandchildExec
    \/ HypervisorWritesPidFile

SpecStart == InitStart /\ [][NextStart]_vars

----------------------------------------------------------------------------
(* The start: claim C3 *)

StartLogHas(ev) == \E i \in 1..Len(startLog) : startLog[i].ev = ev
ForkEvs == {"fork1", "fork1_failed", "fork2", "fork2_failed"}

\* C3 as stated: during a start the VNC marker file and the PID file are
\* written only after the second fork's PID has been printed.
C3_FilesAfterPidReported ==
    \A i \in 1..Len(startLog) :
        startLog[i].ev \in {"write_vnc", "write_pid"} =>
            \E j \in 1..(i - 1) : startLog[j].ev = "print_pid"

\* C3 amended: during a start the VNC marker file is written by the start
\* script, which the launcher runs to its end before its first fork, so the
\* marker exists before any process is created and any PID printed; the PID
\* file is written neither by the script nor by the launcher, only by the
\* detached process once it has been exec'ed, after the second fork.
C3_VncBeforeForkPidAfterExec ==
    /\ \A i \in 1..Len(startLog) :
         /\ startLog[i].ev \in ForkEvs =>
              \E j \in 1..(i - 1) : startLog[j].ev = "write_vnc"
         /\ startLog[i].ev = "write_vnc" =>
              \A j \in 1..(i - 1) : startLog[j].ev \notin ForkEvs \cup {"print_pid"}
         /\ startLog[i].ev = "write_pid" =>
              \E j, k \in 1..(i - 1) :
                  /\ j < k
                  /\ startLog[j] = Ev("fork2", "", startLog[i].n)
                  /\ startLog[k] = Ev("exec", "", startLog[i].n)
    /\ lPc \in {"waitpid"} => vncFile = FileOf(startIn.vnc_port)

C3_Witness ==
    /\ StartLogHas("write_vnc")
    /\ StartLogHas("print_pid")
    /\ StartLogHas("write_pid")
    /\ lPc = "exited"
    /\ lExit = FileOf(0)

----------------------------------------------------------------------------
(* qemutils.Cmdline: a command line as text and as a list of options.       *)
(* A text is a sequence of words; a word that starts with "-" names an      *)
(* option, the words that follow it up to the next such word are its value. *)

K(name) == [dash |-> TRUE, s |-> name]
V(word) == [dash |-> FALSE, s |-> word]
Opt(key, value) == [Key |-> key, Value |-> value]

\* Option.ToString: "-key" or "-key value"
OptionToString(o) ==
    <<K(o.Key)>> \o [i \in 1..Len(o.Value) |-> V(o.Value[i])]

\* Cmdline.ToString: the options joined by a space
RECURSIVE CmdlineToString(_)
CmdlineToString(opts) ==
    IF opts = <<>> THEN <<>>
    ELSE OptionToString(Head(opts)) \o CmdlineToString(Tail(opts))

\* the options of a text that starts with an option name (or is empty)
RECURSIVE splitOptions(_, _)
splitOptions(text, acc) ==
    IF text = <<>> THEN acc
    ELSE IF Head(text).dash
           THEN splitOptions(Tail(text), Append(acc, Opt(Head(text).s, <<>>)))
           ELSE splitOptions(Tail(text),
                    [acc EXCEPT ![Len(acc)].Value = Append(@, Head(text).s)])

\* qemutils.NewCmdline: a text whose first word names no option does not parse
NewCmdline(text) ==
    IF text # <<>> /\ ~Head(text).dash
      THEN [err |-> TRUE, options |-> <<>>]
      ELSE [err |-> FALSE, options |-> splitOptions(text, <<>>)]

\* Cmdline.FilterOption(f): the options f accepts are removed
FilterOption(opts, f) == SelectSeq(opts, LAMBDA o : ~f[o])

\* Cmdline.AddOption(opts...): appended at the end
AddOption(opts, more) == opts \o more

\* strings.HasPrefix(o.Value, p) for a p without a space
ValueHasPrefix(o, p) == o.Value # <<>> /\ HasPrefix(o.Value[1], p)

----------------------------------------------------------------------------
(* diffmatchpatch on texts: DiffMain, PatchMake, PatchApply *)

RECURSIVE CommonPrefixLen(_, _)
CommonPrefixLen(a, b) ==
    IF a = <<>> \/ b = <<>> \/ Head(a) # Head(b) THEN 0
    ELSE 1 + CommonPrefixLen(Tail(a), Tail(b))

Reverse(q) == [i \in 1..Len(q) |-> q[Len(q) + 1 - i]]

Diff(op, text) == [op |-> op, text |-> text]

\* DiffMain(a, b): the common prefix and suffix are kept, what lies between
\* is deleted from a and inserted from b
DiffMain(a, b) ==
    LET p == CommonPrefixLen(a, b)
        ra == SubSeq(a, p + 1, Len(a))
        rb == SubSeq(b, p + 1, Len(b))
        q == CommonPrefixLen(Reverse(ra), Reverse(rb))
    IN  SelectSeq(
          <<Diff("equal", SubSeq(a, 1, p)),
            Diff("delete", SubSeq(ra, 1, Len(ra) - q)),
            Diff("insert", SubSeq(rb, 1, Len(rb) - q)),
            Diff("equal", SubSeq(ra, Len(ra) - q + 1, Len(ra)))>>,
          LAMBDA d : d.text # <<>>)

\* DiffText1: the text a list of diffs starts from; DiffText2: the text it
\* leads to
RECURSIVE DiffText1(_)
DiffText1(diffs) ==
    IF diffs = <<>> THEN <<>>
    ELSE (IF Head(diffs).op # "insert" THEN Head(diffs).text ELSE <<>>)
         \o DiffText1(Tail(diffs))

RECURSIVE DiffText2(_)
DiffText2(diffs) ==
    IF diffs = <<>> THEN <<>>
    ELSE (IF Head(diffs).op # "delete" THEN Head(diffs).text ELSE <<>>)
         \o DiffText2(Tail(diffs))

\* PatchMake(text1, diffs): one patch over the whole of text1
PatchMake(text1, diffs) == [text1 |-> text1, diffs |-> diffs]

\* PatchApply(patch, text): where the patch's source text is found in text
\* it is replaced by the patch's target text and the patch counts as
\* applied; where it is not found the text is returned as it is
PatchApply(patch, text) ==
    IF DiffText1(patch.diffs) = text
      THEN [text |-> DiffText2(patch.diffs), applied |-> TRUE]
      ELSE [text |-> text, applied |-> FALSE]

----------------------------------------------------------------------------
(* parseCmdline, _unifyMigrateQemuCmdline, unifyMigrateQemuCmdline *)

MonitorChardevs ==
    {"socket,id=hmqmondev", "socket,id=hmpmondev",
     "socket,id=qmqmondev", "socket,id=qmpmondev"}

\* the callback of cl.FilterOption: the options that name host-local
\* resources
isDynamicOption(o) ==
    CASE o.Key = "incoming" ->
            ValueHasPrefix(o, "tcp:") \/ ValueHasPrefix(o, "defer")
      [] o.Key \in {"vnc", "spice", "daemonize"} -> TRUE
      [] o.Key = "chardev" ->
            \E valM \in MonitorChardevs : ValueHasPrefix(o, valM)
      [] OTHER -> FALSE

\* parseCmdline: (cl without the dynamic options, the dynamic options, err)
parseCmdline(input) ==
    LET cl == NewCmdline(input)
    IN  IF cl.err
          THEN [err |-> TRUE, cl |-> <<>>, filterOpts |-> <<>>]
          ELSE [err |-> FALSE,
                cl |-> FilterOption(cl.options, [o \in Range(cl.options) |-> isDynamicOption(o)]),
                filterOpts |-> SelectSeq(cl.options, isDynamicOption)]

\* the patch made the wrong way round, from src to cur: a mutant
_unifyMigrateQemuCmdlineReversed(cur, src) ==
    PatchApply(PatchMake(src, DiffMain(src, cur)), cur)

\* diffs := DiffMain(cur, src); patch :=
\* PatchMake(cur, diffs); newStr, _ := PatchApply(patch, cur). The code
\* returns the text alone; applied is what it discards.
_unifyMigrateQemuCmdline(cur, src) ==
    PatchApply(PatchMake(cur, DiffMain(cur, src)), cur)

\* the dynamic options taken from the source: a mutant
unifyMigrateQemuCmdlineSrcOpts(cur, src) ==
    LET curP == parseCmdline(cur)
        srcP == parseCmdline(src)
        uni == _unifyMigrateQemuCmdline(CmdlineToString(curP.cl), CmdlineToString(srcP.cl))
        uniP == parseCmdline(uni.text)
    IN  IF curP.err \/ srcP.err \/ uniP.err
          THEN [err |-> TRUE, text |-> <<>>, applied |-> FALSE]
          ELSE [err |-> FALSE,
                text |-> CmdlineToString(AddOption(uniP.cl, srcP.filterOpts)),
                applied |-> uni.applied]

\* the dynamic options added twice: a mutant
unifyMigrateQemuCmdlineAddTwice(cur, src) ==
    LET curP == parseCmdline(cur)
        srcP == parseCmdline(src)
        uni == _unifyMigrateQemuCmdline(CmdlineToString(curP.cl), CmdlineToString(srcP.cl))
        uniP == parseCmdline(uni.text)
    IN  IF curP.err \/ srcP.err \/ uniP.err
          THEN [err |-> TRUE, text |-> <<>>, applied |-> FALSE]
          ELSE [err |-> FALSE,
                text |-> CmdlineToString(
                    AddOption(AddOption(uniP.cl, curP.filterOpts), curP.filterOpts)),
                applied |-> uni.applied]

\* a failed parse of src answered with cur's text beside the error: a mutant
unifyMigrateQemuCmdlineKeepsCur(cur, src) ==
    LET curP == parseCmdline(cur)
        srcP == parseCmdline(src)
        uni == _unifyMigrateQemuCmdline(CmdlineToString(curP.cl), CmdlineToString(srcP.cl))
        uniP == parseCmdline(uni.text)
    IN  IF curP.err THEN [err |-> TRUE, text |-> <<>>, applied |-> FALSE]
        ELSE IF srcP.err \/ uniP.err THEN [err |-> TRUE, text |-> cur, applied |-> FALSE]
        ELSE [err |-> FALSE,
              text |-> CmdlineToString(AddOption(uniP.cl, curP.filterOpts)),
              applied |-> uni.applied]

\* unifyMigrateQemuCmdline(cur, src): both are parsed, the texts of their
\* non-dynamic options are unified, the result is parsed again and cur's
\* dynamic options are added to it. err stands for a non-nil error, with
\* which the string returned is "".
unifyMigrateQemuCmdline(cur, src) ==
    LET curP == parseCmdline(cur)
        srcP == parseCmdline(src)
        uni == _unifyMigrateQemuCmdline(CmdlineToString(curP.cl), CmdlineToString(srcP.cl))
        uniP == parseCmdline(uni.text)
    IN  IF curP.err \/ srcP.err \/ uniP.err
          THEN [err |-> TRUE, text |-> <<>>, applied |-> FALSE]
          ELSE [err |-> FALSE,
                text |-> CmdlineToString(AddOption(uniP.cl, curP.filterOpts)),
                applied |-> uni.applied]

\* the options the destination host renders, and those of the source host
CurOptions ==
    { Opt("m", <<"1G">>), Opt("vnc", <<":1">>), Opt("daemonize", <<>>),
      Opt("incoming", <<"tcp:0:4396">>), Opt("incoming", <<"exec:", "cat", "f">>),
      Opt("chardev", <<"socket,id=hmqmondev,port=55901">>) }
SrcOptions ==
    { Opt("m", <<"1G">>), Opt("m", <<"2G">>), Opt("vnc", <<":2">>),
      Opt("incoming", <<"defer">>), Opt("nodefaults", <<>>),
      Opt("chardev", <<"socket,id=hmqmondev,port=55902">>) }

\* the sequences over S of at most n elements
RECURSIVE SeqsUpTo(_, _)
SeqsUpTo(S, n) ==
    IF n = 0 THEN { <<>> }
    ELSE LET shorter == SeqsUpTo(S, n - 1)
         IN  shorter \cup { Append(q, x) : q \in shorter, x \in S }

\* a text that does not parse
Unparsable == <<V("qemu-system-x86_64"), K("m"), V("1G")>>

CurTexts ==
    { CmdlineToString(q) : q \in SeqsUpTo(CurOptions, MaxCurOpts) } \cup {Unparsable}
SrcTexts ==
    { CmdlineToString(q) : q \in SeqsUpTo(SrcOptions, MaxSrcOpts) } \cup {Unparsable}

\* the migration destination unifies its command line with the source's
Unify ==
    /\ uPc = "init"
    /\ uRes' = unifyMigrateQemuCmdline(uCur, uSrc)
    /\ uPc' = "once"
    /\ UNCHANGED <<uCur, uSrc, uRes2>>
    /\ UNCHANGED notUnify

\* and unifies the result with the source's once more
UnifyAgain ==
    /\ uPc = "once"
    /\ ~uRes.err
    /\ uRes2' = unifyMigrateQemuCmdline(uRes.text, uSrc)
    /\ uPc' = "twice"
    /\ UNCHANGED <<uCur, uSrc, uRes>>
    /\ UNCHANGED notUnify

HostIdle ==
    /\ nics = <<>>
    /\ hostBridges = {}
    /\ vncFile = NoFile
    /\ pidFile = NoFile
    /\ alive = {}
    /\ hugeDirs = {}
    /\ mounts = {}

InitUnify ==
    /\ uCur \in CurTexts
    /\ uSrc \in SrcTexts
    /\ uPc = "init"
    /\ uRes = <<>>
    /\ uRes2 = <<>>
    /\ HostIdle
    /\ StopIdle
    /\ StartIdle
    /\ MemIdle
    /\ LaterIdle
    /\ LastIdle

NextUnify ==
    \/ Unify
    \/ UnifyAgain

SpecUnify == InitUnify /\ [][NextUnify]_vars

----------------------------------------------------------------------------
(* The command-line unification: claims C4, C5, C6 *)

\* the options of a text, those that are dynamic and those that are not
OptionsOf(text) == NewCmdline(text).options
DynamicOf(text) == SelectSeq(OptionsOf(text), isDynamicOption)
NonDynamicOf(text) == SelectSeq(OptionsOf(text), LAMBDA o : ~isDynamicOption(o))

Unified == uPc \in {"once", "twice"} /\ ~uRes.err

\* C4: the non-dynamic options of the result are those of src, in src's
\* order, and the result of a patch that did not apply is not returned as a
\* success.
C4_NonDynamicFromSource ==
    Unified =>
        /\ NonDynamicOf(uRes.text) = NonDynamicOf(uSrc)
        /\ uRes.applied

C4_Witness ==
    /\ Unified
    /\ NonDynamicOf(uSrc) # <<>>
    /\ NonDynamicOf(uCur) # <<>>
    /\ NonDynamicOf(uCur) # NonDynamicOf(uSrc)
    /\ DynamicOf(uSrc) # <<>>

\* C5: the dynamic options of the result are those of cur, with cur's
\* values and in cur's order, and none comes from src.
C5_DynamicFromCurrent ==
    Unified => DynamicOf(uRes.text) = DynamicOf(uCur)

C5_Witness ==
    /\ Unified
    /\ DynamicOf(uCur) # <<>>
    /\ DynamicOf(uSrc) # <<>>
    /\ \E i \in 1..Len(DynamicOf(uCur)), j \in 1..Len(DynamicOf(uSrc)) :
         /\ DynamicOf(uCur)[i].Key = DynamicOf(uSrc)[j].Key
         /\ DynamicOf(uCur)[i].Value # DynamicOf(uSrc)[j].Value

\* C6: unify(unify(a, b), b) = unify(a, b).
C6_UnifyIdempotent ==
    uPc = "twice" => (~uRes2.err /\ uRes2.text = uRes.text)

C6_Witness ==
    /\ uPc = "twice"
    /\ DynamicOf(uCur) # <<>>
    /\ NonDynamicOf(uSrc) # <<>>
    /\ uRes.text # uCur
    /\ uRes.text # uSrc

\* C16: when the current or the source command line does not parse,
\* unifyMigrateQemuCmdline returns an error, and with an error it returns
\* the empty string, never a command line.
C16_ParseErrorGivesEmptyString ==
    /\ uPc \in {"once", "twice"} =>
         /\ (NewCmdline(uCur).err \/ NewCmdline(uSrc).err) => uRes.err
         /\ uRes.err => uRes.text = <<>>
    /\ uPc = "twice" => (uRes2.err => uRes2.text = <<>>)

C16_Witness ==
    /\ uPc = "once"
    /\ uRes.err
    /\ uRes.text = <<>>
    /\ ~NewCmdline(uCur).err
    /\ uCur # <<>>
    /\ NewCmdline(uSrc).err

----------------------------------------------------------------------------
(* initMemDesc, initMemDescFromMemoryInfo *)

\* the backend object the host's settings select: hugepages, else memclean
\* (memfd), else RAM
MemBackends == {"memory-backend-file", "memory-backend-memfd", "memory-backend-ram"}

\* monitor.MemoryDeviceInfo: Type, Data.ID (nil or set), Data.Size in bytes,
\* Data.Memdev
MemoryDeviceInfos ==
    { [Type |-> k[1], HasID |-> k[2], Size |-> h * 524288, Memdev |-> "/objects/mem1"] :
        k \in { <<"dimm", TRUE>>, <<"dimm", FALSE>>, <<"nvdimm", TRUE>> },
        h \in 0..MaxHalfMBs }

\* initMemDesc(memSizeMB): a fresh memory description of that size with the
\* host's backend object and no slots
initMemDesc(memSizeMB, objType) ==
    [SizeMB |-> memSizeMB,
     Mem |-> [Type |-> objType, Id |-> "mem", SizeM |-> memSizeMB],
     MemSlots |-> <<>>]

\* the loop over the reported devices from the i-th on: memSize -= Size/1024/1024
\* and a slot of Size/1024/1024 MB per device; a device that is no dimm or
\* has no id ends it with an error
RECURSIVE memSlotsFrom(_, _, _, _, _)
memSlotsFrom(list, i, memSize, memSlots, objType) ==
    IF i > Len(list) THEN [err |-> FALSE, memSize |-> memSize, memSlots |-> memSlots]
    ELSE IF list[i].Type # "dimm" \/ ~list[i].HasID
           THEN [err |-> TRUE, memSize |-> memSize, memSlots |-> memSlots]
           ELSE memSlotsFrom(list, i + 1,
                    memSize - ((list[i].Size \div 1024) \div 1024),
                    Append(memSlots,
                        [SizeMB |-> (list[i].Size \div 1024) \div 1024,
                         MemObj |-> [Type |-> objType, Id |-> "mem1"],
                         MemDev |-> [Type |-> "pc-dimm", Id |-> "dimm"]]),
                    objType)

\* the check memSize < 0 in place of memSize <= 0: a mutant
initMemDescFromMemoryInfoAllowZero(mem, memDesc, objType, list) ==
    LET r == memSlotsFrom(list, 1, mem, <<>>, objType)
    IN  IF r.err \/ r.memSize < 0
          THEN [err |-> TRUE, MemDesc |-> memDesc]
          ELSE [err |-> FALSE,
                MemDesc |-> FileOf([initMemDesc(r.memSize, objType)
                                      EXCEPT !.MemSlots = r.memSlots])]

\* the description written before memSize is checked: a mutant
initMemDescFromMemoryInfoWritesFirst(mem, memDesc, objType, list) ==
    LET r == memSlotsFrom(list, 1, mem, <<>>, objType)
        written == FileOf([initMemDesc(r.memSize, objType) EXCEPT !.MemSlots = r.memSlots])
    IN  IF r.err THEN [err |-> TRUE, MemDesc |-> memDesc]
        ELSE IF r.memSize <= 0 THEN [err |-> TRUE, MemDesc |-> written]
        ELSE [err |-> FALSE, MemDesc |-> written]

\* initMemDescFromMemoryInfo: memSize starts at Desc.Mem; after the loop
\* memSize <= 0 is the error "wrong memsize"; otherwise initMemDesc(memSize)
\* and Desc.MemDesc.MemSlots = memSlots. On an error Desc.MemDesc is as it was.
initMemDescFromMemoryInfo(mem, memDesc, objType, list) ==
    LET r == memSlotsFrom(list, 1, mem, <<>>, objType)
    IN  IF r.err \/ r.memSize <= 0
          THEN [err |-> TRUE, MemDesc |-> memDesc]
          ELSE [err |-> FALSE,
                MemDesc |-> FileOf([initMemDesc(r.memSize, objType)
                                      EXCEPT !.MemSlots = r.memSlots])]

\* after an agent restart the memory description is rebuilt from the
\* devices the running hypervisor reports
InitMemDescFromMemoryInfo ==
    /\ mRet = "init"
    /\ LET r == initMemDescFromMemoryInfo(mMem, mMemDesc, mBackend, mDevs)
       IN  /\ mMemDesc' = r.MemDesc
           /\ mRet' = IF r.err THEN "err" ELSE "ok"
    /\ UNCHANGED <<mMem, mBackend, mDevs>>
    /\ UNCHANGED notMem

\* Desc.MemDesc is nil, or what initMemDesc(Desc.Mem) made of it
InitMem ==
    /\ mMem \in 1..MaxMemMB
    /\ mBackend \in MemBackends
    /\ mMemDesc \in {NoFile, FileOf(initMemDesc(mMem, mBackend))}
    /\ mDevs \in SeqsUpTo(MemoryDeviceInfos, MaxMemDevs)
    /\ mRet = "init"
    /\ HostIdle
    /\ StopIdle
    /\ StartIdle
    /\ UnifyIdle
    /\ LaterIdle
    /\ LastIdle

NextMem == InitMemDescFromMemoryInfo

SpecMem == InitMem /\ [][NextMem]_vars

----------------------------------------------------------------------------
(* The memory description: claim C7 *)

RECURSIVE SumSizeMB(_)
SumSizeMB(slots) ==
    IF slots = <<>> THEN 0 ELSE Head(slots).SizeMB + SumSizeMB(Tail(slots))

\* the MB the reported devices take, each Size/1024/1024
RECURSIVE ReportedMB(_)
ReportedMB(list) ==
    IF list = <<>> THEN 0
    ELSE ((Head(list).Size \div 1024) \div 1024) + ReportedMB(Tail(list))

AllDimmsWithId(list) ==
    \A i \in 1..Len(list) : list[i].Type = "dimm" /\ list[i].HasID

\* C7: when initMemDescFromMemoryInfo succeeds, the slot sizes plus the base
\* memory object size make Desc.Mem and the base size is positive; when the
\* reported sizes leave no positive base size, it returns an error.
C7_SlotsPlusBaseIsMem ==
    /\ mRet = "ok" =>
         /\ mMemDesc # NoFile
         /\ mMemDesc[1].SizeMB > 0
         /\ Len(mMemDesc[1].MemSlots) = Len(mDevs)
         /\ SumSizeMB(mMemDesc[1].MemSlots) + mMemDesc[1].SizeMB = mMem
         /\ mMemDesc[1].Mem.SizeM = mMemDesc[1].SizeMB
    /\ (mRet \in {"ok", "err"} /\ AllDimmsWithId(mDevs) /\ mMem - ReportedMB(mDevs) <= 0)
         => mRet = "err"

C7_Witness ==
    /\ mRet = "ok"
    /\ Len(mMemDesc[1].MemSlots) = 2
    /\ SumSizeMB(mMemDesc[1].MemSlots) = 2
    /\ mMemDesc[1].SizeMB = 1

----------------------------------------------------------------------------
(* The descriptor's machine type and BIOS, and the rendering of the start  *)
(* script from a descriptor                                                *)

VM_MACHINE_TYPE_PC == "pc"
VM_MACHINE_TYPE_Q35 == "q35"
VM_MACHINE_TYPE_ARM_VIRT == "virt"
BIOS_UEFI == "UEFI"
OS_NAME_MACOS == "macOS"
OS_NAME_LINUX == "Linux"

\* the machine types a descriptor holds: unset, generic PC, Q35, ARM-virt
Machines == {"", VM_MACHINE_TYPE_PC, VM_MACHINE_TYPE_Q35, VM_MACHINE_TYPE_ARM_VIRT}
\* the BIOS modes: unset (legacy) and UEFI
BiosModes == {"", BIOS_UEFI}
\* Metadata["os_name"]: absent, or macOS
OsNames == {"absent", OS_NAME_MACOS}

\* Desc.ExtraOptions, a map from option name to a JSON value: a JSONArray
\* gives one "-name value" per element, any other value gives one
ExtraOptionValues ==
    [device |-> <<"usb-host", "usb-audio">>, rtc |-> <<"base=utc">>]
ExtraOptionMaps == SUBSET (DOMAIN ExtraOptionValues)

\* GetOsName: Metadata["os_name"], Linux when absent
GetOsName(d) == IF d.os_name = "absent" THEN OS_NAME_LINUX ELSE d.os_name

\* fixGuestMachineType with the aarch64 branch first: a mutant
fixGuestMachineTypeArmFirst(d, isAarch64) ==
    LET d1 == IF isAarch64
                THEN [d EXCEPT !.Machine =
                                 IF @ \in {"", VM_MACHINE_TYPE_PC, VM_MACHINE_TYPE_Q35}
                                   THEN VM_MACHINE_TYPE_ARM_VIRT ELSE @,
                               !.Bios = BIOS_UEFI]
                ELSE d
    IN  IF GetOsName(d1) = OS_NAME_MACOS
          THEN [d1 EXCEPT !.Machine = VM_MACHINE_TYPE_Q35, !.Bios = BIOS_UEFI]
          ELSE d1

\* fixGuestMachineType: a macOS guest gets Q35 and UEFI; then, on an aarch64
\* host, an unset, PC or Q35 machine becomes ARM-virt and the BIOS UEFI
fixGuestMachineType(d, isAarch64) ==
    LET d1 == IF GetOsName(d) = OS_NAME_MACOS
                THEN [d EXCEPT !.Machine = VM_MACHINE_TYPE_Q35, !.Bios = BIOS_UEFI]
                ELSE d
    IN  IF isAarch64
          THEN [d1 EXCEPT !.Machine =
                            IF @ \in {"", VM_MACHINE_TYPE_PC, VM_MACHINE_TYPE_Q35}
                              THEN VM_MACHINE_TYPE_ARM_VIRT ELSE @,
                          !.Bios = BIOS_UEFI]
          ELSE d1

\* initCpuDesc: fixGuestMachineType, then archMan.GenerateCpuDesc, whose
\* error leaves Desc.CpuDesc as it was
initCpuDesc(d, isAarch64, cpuErr) ==
    LET fixed == fixGuestMachineType(d, isAarch64)
    IN  [err |-> cpuErr,
         Desc |-> IF cpuErr THEN fixed ELSE [fixed EXCEPT !.CpuDesc = "set"]]

\* the orders in which range may visit the keys of a Go map
MapOrders(keys) == { q \in DistinctSeqs(keys, Cardinality(keys)) : Len(q) = Cardinality(keys) }

\* " -<k> <v>" for every element of a JSONArray, or for the one value
RECURSIVE extraOptionWords(_, _)
extraOptionWords(k, vs) ==
    IF vs = <<>> THEN <<>>
    ELSE <<K(k), V(Head(vs))>> \o extraOptionWords(k, Tail(vs))

\* extraOptions: for k, v := range s.Desc.ExtraOptions, in the order the
\* range visits the map
RECURSIVE extraOptions(_)
extraOptions(order) ==
    IF order = <<>> THEN <<>>
    ELSE extraOptionWords(Head(order), ExtraOptionValues[Head(order)])
         \o extraOptions(Tail(order))

QMP_MONITOR_PORT_BASE == 56100

\* GetQmpMonitorPort with the HMP base: a mutant
GetQmpMonitorPortHmpBase(vncPort) == vncPort + MONITOR_PORT_BASE

\* GetHmpMonitorPort and GetQmpMonitorPort: the VNC port plus a fixed offset
GetHmpMonitorPort(vncPort) == vncPort + MONITOR_PORT_BASE
GetQmpMonitorPort(vncPort) == vncPort + QMP_MONITOR_PORT_BASE

\* qemu.GenerateStartOptions: the options of the hypervisor, among them the
\* machine, the firmware, the two monitors, the extra options, and, for a
\* launch that receives a migration (NeedMigrate, or a slave guest with its
\* migration port), the TCP incoming clause
GenerateStartOptions(input) ==
    [machine |-> input.GuestDesc.Machine,
     ovmf |-> input.OVMF,
     hmp |-> input.HMPMonitor,
     qmp |-> input.QMPMonitor,
     extra |-> input.ExtraOptions,
     incoming |-> IF input.NeedMigrate \/ input.GuestDesc.IsSlave
                    THEN <<"tcp">> ELSE <<>>]

\* the data of a call: vnc_port, need_migrate, live_migrate_use_tls, an
\* optional encrypt_key, and which collaborator, if any, fails
RenderInputs ==
    { in \in [vnc_port : VncPorts, hugepages : {FALSE}, genErr : GenErrs,
              need_migrate : BOOLEAN, live_migrate_use_tls : BOOLEAN,
              encrypt_key : {NoFile, FileOf("key-1")}] :
        in.genErr = "encrypt_key" => in.encrypt_key # NoFile }

\* the script of a successful call: the commands that act on the host and
\* the hypervisor's options inside CMD="..."
startScriptText(s, ns, data, order) ==
    [lines |-> generateStartScript(ns, data).lines,
     cmd |-> GenerateStartOptions(
                 [GuestDesc |-> s.Desc,
                  OVMF |-> s.Desc.Bios = BIOS_UEFI,
                  HMPMonitor |-> GetHmpMonitorPort(data.vnc_port),
                  QMPMonitor |-> GetQmpMonitorPort(data.vnc_port),
                  ExtraOptions |-> extraOptions(order),
                  NeedMigrate |-> data.need_migrate])]

\* generateStartScript setting s.LiveMigrateUseTls for live_migrate_use_tls
\* alone, without need_migrate: a mutant
generateStartScriptTlsWithoutMigrate(s, ns, data, order) ==
    LET gen == generateStartScript(ns, data)
    IN  [err |-> gen.err, panic |-> gen.panic,
         script |-> IF gen.err \/ gen.panic THEN NoFile
                    ELSE FileOf(startScriptText(s, ns, data, order)),
         LiveMigrateUseTls |->
             IF /\ data.live_migrate_use_tls
                /\ ~gen.panic
                /\ data.genErr \in {"none", "options"}
               THEN TRUE ELSE s.LiveMigrateUseTls,
         keyFile |->
             IF data.encrypt_key # NoFile /\ data.genErr # "encrypt_key"
               THEN data.encrypt_key ELSE s.keyFile]

\* generateStartScript on the instance s with the NICs ns: what it returns
\* and what it leaves behind. In the order of the code: the encryption key
\* of data is saved; the NIC loop (panics on a missing bridge device); the
\* disk and SR-IOV scripts; s.LiveMigrateUseTls = true for need_migrate with
\* live_migrate_use_tls; the hypervisor's options. order is the order in
\* which the range over Desc.ExtraOptions visits the map.
generateStartScriptOn(s, ns, data, order) ==
    LET gen == generateStartScript(ns, data)
    IN  [err |-> gen.err, panic |-> gen.panic,
         script |-> IF gen.err \/ gen.panic THEN NoFile
                    ELSE FileOf(startScriptText(s, ns, data, order)),
         LiveMigrateUseTls |->
             IF /\ data.need_migrate
                /\ data.live_migrate_use_tls
                /\ ~gen.panic
                /\ data.genErr \in {"none", "options"}
               THEN TRUE ELSE s.LiveMigrateUseTls,
         keyFile |->
             IF data.encrypt_key # NoFile /\ data.genErr # "encrypt_key"
               THEN data.encrypt_key ELSE s.keyFile]

\* the launch command the script composes: the rendered options, then the
\* if/elif on $STATE_FILE, which appends --incoming "exec: cat ..." for a
\* state directory with a content file or for a state file
composeCmd(script, stateFile) ==
    script.cmd.incoming
    \o (IF stateFile \in {"dir", "file"} THEN <<"exec">> ELSE <<>>)

\* what ls -d <state file prefix>* | head -n 1 finds: nothing, a file, a
\* directory with a content file, a directory without one
StateFiles == {"none", "file", "dir", "dir_empty"}

Instance == [Desc |-> rDesc, LiveMigrateUseTls |-> rTls, keyFile |-> rKeyFile]

\* the descriptor is rendered once initCpuDesc has filled it
DescReadyAlways == rPc \in {"loaded", "inited"}
DescReady == rPc = "inited"

\* initCpuDesc
InitCpuDesc ==
    /\ rPc = "loaded"
    /\ \E cpuErr \in BOOLEAN :
         LET r == initCpuDesc(rDesc, rAarch64, cpuErr)
         IN  /\ rDesc' = r.Desc
             /\ rPc' = IF r.err THEN "init_failed" ELSE "inited"
    /\ UNCHANGED <<rDesc0, rAarch64, rTls, rKeyFile, rStateFile, rData, rOuts, rCmd>>
    /\ UNCHANGED notRender

\* generateStartScript(data)
GenerateStartScript ==
    /\ DescReady
    /\ rOuts = <<>>
    /\ \E data \in RenderInputs, order \in MapOrders(rDesc.ExtraOptions) :
         LET r == generateStartScriptOn(Instance, nics, data, order)
         IN  /\ rData' = data
             /\ rOuts' = <<[err |-> r.err, panic |-> r.panic, script |-> r.script,
                            Desc |-> rDesc]>>
             /\ rTls' = r.LiveMigrateUseTls
             /\ rKeyFile' = r.keyFile
    /\ UNCHANGED <<rDesc0, rDesc, rAarch64, rStateFile, rPc, rCmd>>
    /\ UNCHANGED notRender

\* generateStartScript(data) once more, with the same data
GenerateStartScriptAgain ==
    /\ DescReady
    /\ Len(rOuts) = 1
    /\ rCmd = NoFile
    /\ \E order \in MapOrders(rDesc.ExtraOptions) :
         LET r == generateStartScriptOn(Instance, nics, rData, order)
         IN  /\ rOuts' = Append(rOuts, [err |-> r.err, panic |-> r.panic,
                                        script |-> r.script, Desc |-> rDesc])
             /\ rTls' = r.LiveMigrateUseTls
             /\ rKeyFile' = r.keyFile
    /\ UNCHANGED <<rDesc0, rDesc, rAarch64, rStateFile, rPc, rData, rCmd>>
    /\ UNCHANGED notRender

\* the script rendered last is run: it composes and echoes $CMD
ComposeCmd ==
    /\ rOuts # <<>>
    /\ rOuts[Len(rOuts)].script # NoFile
    /\ rCmd = NoFile
    /\ rCmd' = FileOf(composeCmd(rOuts[Len(rOuts)].script[1], rStateFile))
    /\ UNCHANGED <<rDesc0, rDesc, rAarch64, rTls, rKeyFile, rStateFile, rPc, rData, rOuts>>
    /\ UNCHANGED notRender

Descriptors ==
    [Machine : Machines, Bios : BiosModes, os_name : OsNames,
     ExtraOptions : ExtraOptionMaps, IsSlave : BOOLEAN, CpuDesc : {"unset"}]

InitRender ==
    /\ rDesc0 \in Descriptors
    /\ rDesc = rDesc0
    /\ rAarch64 \in BOOLEAN
    /\ rTls = FALSE
    /\ rKeyFile = NoFile
    /\ rStateFile \in StateFiles
    /\ rPc = "loaded"
    /\ rData = <<>>
    /\ rOuts = <<>>
    /\ rCmd = NoFile
    /\ HostIdle
    /\ StopIdle
    /\ StartIdle
    /\ UnifyIdle
    /\ MemIdle
    /\ ScriptsIdle
    /\ PortsIdle
    /\ TwoIdle
    /\ LastIdle

NextRender ==
    \/ InitCpuDesc
    \/ GenerateStartScript
    \/ GenerateStartScriptAgain
    \/ ComposeCmd

SpecRender == InitRender /\ [][NextRender]_vars

----------------------------------------------------------------------------
(* Rendering: claims C11, C12, C13, C14, C17 *)

\* C11 as stated: two calls of generateStartScript with the same descriptor,
\* the same host and the same data return the same script.
C11_RenderDeterministic ==
    Len(rOuts) = 2 =>
        /\ rOuts[1].err = rOuts[2].err
        /\ rOuts[1].script = rOuts[2].script

Rendered == rOuts' # rOuts

\* C14 as stated: a call of generateStartScript, whether it succeeds or
\* fails, changes no field of the instance or its descriptor, the TLS flag
\* included, and leaves the guest's files unchanged.
C14_RenderChangesNothing ==
    [][Rendered => UNCHANGED <<rDesc, rTls, rKeyFile, hostVars>>]_vars

\* C14 amended: a call changes no descriptor field and none of the files the
\* scripts act on; it writes the encryption key file when the data carry an
\* encrypt_key, and it sets s.LiveMigrateUseTls, never clearing it, only for
\* data with need_migrate and live_migrate_use_tls, always so when such a
\* call succeeds; both writes may remain after a call that fails.
C14_RenderWritesOnlyTlsFlagAndKeyFile ==
    [][Rendered =>
         LET out == rOuts'[Len(rOuts')]
         IN  /\ UNCHANGED <<rDesc, rAarch64, hostVars>>
             /\ rTls => rTls'
             /\ rTls' # rTls =>
                   rData'.need_migrate /\ rData'.live_migrate_use_tls
             /\ (~out.err /\ rData'.need_migrate /\ rData'.live_migrate_use_tls)
                   => rTls'
             /\ rKeyFile' # rKeyFile =>
                   rData'.encrypt_key # NoFile /\ rKeyFile' = rData'.encrypt_key
             /\ rData'.encrypt_key = NoFile => rKeyFile' = rKeyFile]_vars

C14_Witness ==
    /\ Len(rOuts) = 1
    /\ rOuts[1].err
    /\ rTls
    /\ rKeyFile # NoFile

\* C17 as stated: the launch command carries at most one incoming clause,
\* and exactly one when the launch receives a migration or finds a saved
\* state.
C17_ExactlyOneIncoming ==
    rCmd # NoFile =>
        /\ Len(rCmd[1]) <= 1
        /\ (rData.need_migrate \/ rStateFile \in {"file", "dir"}) => Len(rCmd[1]) = 1

----------------------------------------------------------------------------
(* The three script generators on a host that may lack a bridge device *)

\* calls of the generators in one behaviour
MaxCalls == 2

\* what a call gave: "ok" with a script, "error" with the error returned, or
\* "panic" for a nil dereference that returns nothing
Outcome(fn, status, msg, script) ==
    [fn |-> fn, status |-> status, msg |-> msg, script |-> script]

\* what may fail while the if-up and if-down scripts are written
IfScriptErrs == {"none", "GenerateIfupScripts", "GenerateIfdownScripts"}

\* generateNicScripts: "Can't find bridge <bridge>" when the host has no
\* device for the NIC's bridge; else the if-up and if-down scripts are
\* written, and an error of either is returned wrapped
generateNicScripts(nic, ifErr) ==
    IF GetBridgeDev(nic.Bridge) = NoFile
      THEN Outcome("generateNicScripts", "error", <<"Can't find bridge", nic.Bridge>>, NoFile)
    ELSE IF ifErr # "none"
      THEN Outcome("generateNicScripts", "error", <<ifErr>>, NoFile)
    ELSE Outcome("generateNicScripts", "ok", <<>>, NoFile)

\* a call of generateStartScript: the error of a collaborator, the panic of
\* getNicDownScriptPath, or the script
startScriptOutcome(ns, in) ==
    LET gen == generateStartScript(ns, in)
    IN  IF gen.panic THEN Outcome("generateStartScript", "panic", <<>>, NoFile)
        ELSE IF gen.err THEN Outcome("generateStartScript", "error", <<in.genErr>>, NoFile)
        ELSE Outcome("generateStartScript", "ok", <<>>, FileOf(gen.lines))

\* a call of generateStopScript, which returns no error: the panic of
\* getNicDownScriptPath, or the script
stopScriptOutcome(uuid, ns) ==
    LET gen == generateStopScript(uuid, ns)
    IN  IF gen.panic THEN Outcome("generateStopScript", "panic", <<>>, NoFile)
        ELSE Outcome("generateStopScript", "ok", <<>>, FileOf(gen.lines))

GenerateNicScripts ==
    /\ Len(sOuts) < MaxCalls
    /\ \E i \in 1..Len(nics), ifErr \in IfScriptErrs :
         sOuts' = Append(sOuts, [out |-> generateNicScripts(nics[i], ifErr),
                                 bridges |-> {nics[i].Bridge}])
    /\ UNCHANGED notScripts

GenerateStartScriptCall ==
    /\ Len(sOuts) < MaxCalls
    /\ \E in \in StartInputs :
         sOuts' = Append(sOuts, [out |-> startScriptOutcome(nics, in),
                                 bridges |-> { n.Bridge : n \in Range(nics) }])
    /\ UNCHANGED notScripts

GenerateStopScriptCall ==
    /\ Len(sOuts) < MaxCalls
    /\ sOuts' = Append(sOuts, [out |-> stopScriptOutcome(Uuid, nics),
                               bridges |-> { n.Bridge : n \in Range(nics) }])
    /\ UNCHANGED notScripts

InitScripts ==
    /\ nics \in NicLists
    /\ hostBridges \in BridgeSets
    /\ vncFile = NoFile
    /\ pidFile = NoFile
    /\ alive = {}
    /\ hugeDirs = {}
    /\ mounts = {}
    /\ sOuts = <<>>
    /\ StopIdle
    /\ StartIdle
    /\ UnifyIdle
    /\ MemIdle
    /\ RenderIdle
    /\ PortsIdle
    /\ TwoIdle
    /\ LastIdle

NextScripts ==
    \/ GenerateNicScripts
    \/ GenerateStartScriptCall
    \/ GenerateStopScriptCall

SpecScripts == InitScripts /\ [][NextScripts]_vars

----------------------------------------------------------------------------
(* A missing bridge device: claim C15 *)

\* C15 as stated: when a NIC the call handles names a bridge without a
\* device on the host, the call returns the error "Can't find bridge <name>":
\* no crash, no script.
C15_MissingBridgeIsAnError ==
    \A i \in 1..Len(sOuts) :
        (sOuts[i].bridges \ hostBridges # {}) =>
            /\ sOuts[i].out.status = "error"
            /\ \E b \in sOuts[i].bridges \ hostBridges :
                 sOuts[i].out.msg = <<"Can't find bridge", b>>
            /\ sOuts[i].out.script = NoFile

----------------------------------------------------------------------------
(* The monitor ports of two guests on one host *)

\* the two guests of one host, by UUID
Guests == {"uuid-a", "uuid-b"}

\* VNC ports come from 1..MaxGuestPorts and from the same range shifted by
\* the distance between the two monitor port bases
MaxGuestPorts == 3
GuestVncPorts ==
    (1..MaxGuestPorts)
    \cup { p + (QMP_MONITOR_PORT_BASE - MONITOR_PORT_BASE) : p \in 1..MaxGuestPorts }

\* input.HMPMonitor and input.QMPMonitor of a guest rendered with vncPort
Monitors(vncPort) ==
    [hmp |-> GetHmpMonitorPort(vncPort), qmp |-> GetQmpMonitorPort(vncPort)]

\* generateStartScript of guest g injects its two monitors
RenderMonitors ==
    /\ \E g \in Guests :
         /\ pMon[g] = NoFile
         /\ pMon' = [pMon EXCEPT ![g] = FileOf(Monitors(pVnc[g]))]
    /\ UNCHANGED pVnc
    /\ UNCHANGED notPorts

InitPorts ==
    /\ pVnc \in [Guests -> GuestVncPorts]
    /\ pVnc["uuid-a"] # pVnc["uuid-b"]
    /\ pMon = [g \in Guests |-> NoFile]
    /\ HostIdle
    /\ StopIdle
    /\ StartIdle
    /\ UnifyIdle
    /\ MemIdle
    /\ RenderIdle
    /\ ScriptsIdle
    /\ TwoIdle
    /\ LastIdle

NextPorts == RenderMonitors

SpecPorts == InitPorts /\ [][NextPorts]_vars

----------------------------------------------------------------------------
(* The monitor ports: claim C18 *)

BothRendered == \A g \in Guests : pMon[g] # NoFile
PortsOf(g) == {pMon[g][1].hmp, pMon[g][1].qmp}
BaseDistance == QMP_MONITOR_PORT_BASE - MONITOR_PORT_BASE

\* C18 as stated: two guests rendered with distinct VNC ports share no
\* monitor port, and within a guest the HMP and QMP ports differ.
C18_NoMonitorPortShared ==
    BothRendered =>
        /\ PortsOf("uuid-a") \cap PortsOf("uuid-b") = {}
        /\ \A g \in Guests : pMon[g][1].hmp # pMon[g][1].qmp

\* C18 amended: two guests rendered with distinct VNC ports have distinct
\* HMP ports and distinct QMP ports, and within a guest the two ports
\* differ; the HMP port of one equals the QMP port of the other exactly when
\* their VNC ports lie as far apart as the two port bases.
C18_PortsDifferUnlessBaseDistanceApart ==
    BothRendered =>
        /\ pMon["uuid-a"][1].hmp # pMon["uuid-b"][1].hmp
        /\ pMon["uuid-a"][1].qmp # pMon["uuid-b"][1].qmp
        /\ \A g \in Guests : pMon[g][1].hmp # pMon[g][1].qmp
        /\ \A g, h \in Guests :
             (pMon[g][1].hmp = pMon[h][1].qmp) <=> (pVnc[g] = pVnc[h] + BaseDistance)

C18_Witness ==
    /\ BothRendered
    /\ pVnc["uuid-b"] = pVnc["uuid-a"] + BaseDistance
    /\ pMon["uuid-b"][1].hmp = pMon["uuid-a"][1].qmp

----------------------------------------------------------------------------
(* The hugepage commands of two guests' start and stop scripts, on a host  *)
(* with hugepages, interleaved command by command                          *)

\* what ls -d /dev/hugepages/<uuid>* lists, in ls's order
listHugeDirs(uuid) == SelectSeq(HugeDirOrder, LAMBDA d : d \in globHugeDirs(uuid))

AtTwo(g, pc) == tPc[g] = pc

\* start script of g: mkdir -p /dev/hugepages/<uuid>
TwoStartMkdir ==
    /\ \E g \in Guests :
         /\ AtTwo(g, "stopped")
         /\ hugeDirs' = hugeDirs \cup {g}
         /\ tPc' = [tPc EXCEPT ![g] = "mount"]
    /\ UNCHANGED <<tTodo, tMounted, tRemoved>>
    /\ UNCHANGED <<nics, hostBridges, vncFile, pidFile, alive, mounts>>
    /\ UNCHANGED notTwo

\* start script of g: mount -t hugetlbfs ... /dev/hugepages/<uuid>
TwoStartMount ==
    /\ \E g \in Guests :
         /\ AtTwo(g, "mount")
         /\ mounts' = IF g \in hugeDirs THEN mounts \cup {g} ELSE mounts
         /\ tMounted' = [tMounted EXCEPT ![g] = @ \cup {g}]
         /\ tPc' = [tPc EXCEPT ![g] = "running"]
    /\ UNCHANGED <<tTodo, tRemoved>>
    /\ UNCHANGED <<nics, hostBridges, vncFile, pidFile, alive, hugeDirs>>
    /\ UNCHANGED notTwo

\* stop script of g: for d in $(ls -d /dev/hugepages/<uuid>*), the list is
\* taken once, before the loop
TwoStopList ==
    /\ \E g \in Guests :
         /\ AtTwo(g, "running") \/ AtTwo(g, "stopped")
         /\ tTodo' = [tTodo EXCEPT ![g] = listHugeDirs(g)]
         /\ tPc' = [tPc EXCEPT ![g] = "loop"]
    /\ UNCHANGED <<tMounted, tRemoved>>
    /\ UNCHANGED hostVars
    /\ UNCHANGED notTwo

\* stop script of g: if [ -d $d ]; then umount $d
TwoStopUmount ==
    /\ \E g \in Guests :
         /\ AtTwo(g, "loop")
         /\ tTodo[g] # <<>>
         /\ LET d == Head(tTodo[g])
            IN  IF d \in hugeDirs
                  THEN /\ mounts' = mounts \ {d}
                       /\ tRemoved' = [tRemoved EXCEPT ![g] = @ \cup {d}]
                       /\ tPc' = [tPc EXCEPT ![g] = "rm"]
                       /\ UNCHANGED tTodo
                  ELSE /\ tTodo' = [tTodo EXCEPT ![g] = Tail(@)]
                       /\ UNCHANGED <<mounts, tRemoved, tPc>>
    /\ UNCHANGED tMounted
    /\ UNCHANGED <<nics, hostBridges, vncFile, pidFile, alive, hugeDirs>>
    /\ UNCHANGED notTwo

\* stop script of g: rm -rf $d, which a mount point withstands
TwoStopRm ==
    /\ \E g \in Guests :
         /\ AtTwo(g, "rm")
         /\ LET d == Head(tTodo[g])
            IN  hugeDirs' = IF d \in mounts THEN hugeDirs ELSE hugeDirs \ {d}
         /\ tTodo' = [tTodo EXCEPT ![g] = Tail(@)]
         /\ tPc' = [tPc EXCEPT ![g] = "loop"]
    /\ UNCHANGED <<tMounted, tRemoved>>
    /\ UNCHANGED <<nics, hostBridges, vncFile, pidFile, alive, mounts>>
    /\ UNCHANGED notTwo

\* stop script of g: done
TwoStopDone ==
    /\ \E g \in Guests :
         /\ AtTwo(g, "loop")
         /\ tTodo[g] = <<>>
         /\ tPc' = [tPc EXCEPT ![g] = "stopped"]
    /\ UNCHANGED <<tTodo, tMounted, tRemoved>>
    /\ UNCHANGED hostVars
    /\ UNCHANGED notTwo

\* Both guests are stopped; /dev/hugepages may hold what earlier runs left
InitTwo ==
    /\ nics = <<>>
    /\ hostBridges = {}
    /\ vncFile = NoFile
    /\ pidFile = NoFile
    /\ alive = {}
    /\ hugeDirs \in SUBSET HugeDirNames
    /\ mounts \in SUBSET hugeDirs
    /\ tPc = [g \in Guests |-> "stopped"]
    /\ tTodo = [g \in Guests |-> <<>>]
    /\ tMounted = [g \in Guests |-> {}]
    /\ tRemoved = [g \in Guests |-> {}]
    /\ StopIdle
    /\ StartIdle
    /\ UnifyIdle
    /\ MemIdle
    /\ RenderIdle
    /\ ScriptsIdle
    /\ PortsIdle
    /\ LastIdle

NextTwo ==
    \/ TwoStartMkdir
    \/ TwoStartMount
    \/ TwoStopList
    \/ TwoStopUmount
    \/ TwoStopRm
    \/ TwoStopDone

SpecTwo == InitTwo /\ [][NextTwo]_vars

----------------------------------------------------------------------------
(* Two guests' hugepage directories: claim C19 *)

\* C19: under any interleaving of the two guests' start and stop scripts, a
\* guest's start mounts only the directory of its own UUID, a guest's stop
\* unmounts and removes no directory of the other guest, and so the
\* directory of a started guest stays mounted until its own stop.
C19_HugepagesPartitionedByUuid ==
    \A g \in Guests :
        /\ tMounted[g] \subseteq {g}
        /\ tRemoved[g] \cap (Guests \ {g}) = {}
        /\ tPc[g] = "running" => (g \in hugeDirs /\ g \in mounts)

C19_Witness ==
    /\ tPc["uuid-b"] = "running"
    /\ "uuid-b" \in mounts
    /\ tMounted["uuid-a"] = {"uuid-a"}
    /\ "uuid-a" \in tRemoved["uuid-a"]
    /\ tPc["uuid-a"] = "stopped"
    /\ "uuid-a" \notin hugeDirs

----------------------------------------------------------------------------
(* The launcher's report of a failed start: claim C20 *)

StartFailureEvs ==
    {"script_failed", "fork1_failed", "fork2_failed", "redirect_failed", "exec_failed"}
StartFailed == \E i \in 1..Len(startLog) : startLog[i].ev \in StartFailureEvs

\* C20 as stated: once the launcher has exited and the detached process has
\* come to run the hypervisor or to fail, a failure of the start script, of
\* a fork or of the detached process's exec has made the launcher exit
\* non-zero without a PID reported, and an exit 0 with a printed PID means
\* the hypervisor command was launched.
C20_StartFailuresReported ==
    (lPc = "exited" /\ gPc \in {"none", "running", "failed"}) =>
        /\ StartFailed => (lExit # FileOf(0) /\ lStdout = NoFile)
        /\ (lExit = FileOf(0) /\ lStdout # NoFile) => gPc = "running"

----------------------------------------------------------------------------
(* StartPresendArp: the ARP requests a guest's NICs are announced with *)

\* for i := 0; i < 5; i++
ARP_ROUNDS == 5

\* what one presendArpForNic call runs into: the request is written, or one of
\* its five steps fails, which is logged and returns
ArpOutcomes == {"sent", "InterfaceByName", "Dial", "ParseMAC", "NewPacket", "WriteTo"}

\* log.Errorf of a failing step; the model keeps, of each NIC, the first
\* attempt that failed
ArpFailure(o) ==
    IF o = "sent" \/ (\E f \in aFailed : f[2] = aIdx)
      THEN aFailed
      ELSE aFailed \cup {<<aRound, aIdx>>}

\* StartPresendArp: go func() { ... }()
StartPresendArp ==
    /\ aPc = "idle"
    /\ aPc' = "round"
    /\ UNCHANGED <<aRound, aIdx, aSent, aFailed>>
    /\ UNCHANGED notArp

\* a loop whose round a failing NIC ends: a mutant
PresendArpForNicEndsRound ==
    /\ aPc = "round"
    /\ aRound < ARP_ROUNDS
    /\ aIdx <= Len(nics)
    /\ \E o \in ArpOutcomes :
        /\ aSent' = aSent \cup {<<aRound, aIdx>>}
        /\ aFailed' = ArpFailure(o)
        /\ aIdx' = IF o = "sent" THEN aIdx + 1 ELSE Len(nics) + 1
    /\ UNCHANGED <<aPc, aRound>>
    /\ UNCHANGED notArp

\* for _, nic := range s.Desc.Nics { s.presendArpForNic(nic) }: one call; it
\* returns nothing, so the loop goes on to the next NIC whatever happened
PresendArpForNic ==
    /\ aPc = "round"
    /\ aRound < ARP_ROUNDS
    /\ aIdx <= Len(nics)
    /\ \E o \in ArpOutcomes :
        /\ aSent' = aSent \cup {<<aRound, aIdx>>}
        /\ aFailed' = ArpFailure(o)
    /\ aIdx' = aIdx + 1
    /\ UNCHANGED <<aPc, aRound>>
    /\ UNCHANGED notArp

\* time.Sleep(1 * time.Second); i++
ArpSleep ==
    /\ aPc = "round"
    /\ aRound < ARP_ROUNDS
    /\ aIdx > Len(nics)
    /\ aRound' = aRound + 1
    /\ aIdx' = 1
    /\ UNCHANGED <<aPc, aSent, aFailed>>
    /\ UNCHANGED notArp

\* i < 5 is false: the goroutine returns
ArpReturn ==
    /\ aPc = "round"
    /\ aRound >= ARP_ROUNDS
    /\ aPc' = "done"
    /\ UNCHANGED <<aRound, aIdx, aSent, aFailed>>
    /\ UNCHANGED notArp

InitArp ==
    /\ nics \in NicLists
    /\ hostBridges = {}
    /\ vncFile = NoFile
    /\ pidFile = NoFile
    /\ alive = {}
    /\ hugeDirs = {}
    /\ mounts = {}
    /\ ArpIdle
    /\ StopIdle
    /\ StartIdle
    /\ UnifyIdle
    /\ MemIdle
    /\ LaterIdle
    /\ UsbIdle
    /\ CloudIdle

NextArp ==
    \/ StartPresendArp
    \/ PresendArpForNic
    \/ ArpSleep
    \/ ArpReturn

SpecArp == InitArp /\ [][NextArp]_vars

\* the Go scheduler runs a goroutine that can take a step, and a sleep ends
SpecArpLive == SpecArp /\ WF_vars(NextArp)

----------------------------------------------------------------------------
(* StartPresendArp: claim C21 *)

\* the attempts of the rounds before round i, and of round i before NIC k
ArpAttemptsUpTo(i, k) ==
    { <<r, n>> : r \in 0..(i - 1), n \in 1..Len(nics) } \cup { <<i, n>> : n \in 1..(k - 1) }

\* C21: the loop StartPresendArp starts makes exactly five rounds and then
\* ends; every round attempts every NIC of the descriptor, in order, whatever
\* the earlier attempts ran into.
C21_FiveRoundsOverEveryNic ==
    /\ [](aSent = ArpAttemptsUpTo(aRound, aIdx))
    /\ [](aPc = "done" => aRound = ARP_ROUNDS /\ aIdx = 1)
    /\ ((aPc = "round") ~> (aPc = "done"))

C21_Witness ==
    /\ aPc = "done"
    /\ Len(nics) = 2
    /\ <<0, 1>> \in aFailed
    /\ <<4, 2>> \in aSent
    /\ Cardinality(aSent) = ARP_ROUNDS * Len(nics)

----------------------------------------------------------------------------
(* generateStartScript: the USB input devices *)

OS_NAME_WINDOWS == "Windows"
OS_NAME_ANDROID == "Android"
OS_NAME_CIRROS == "Cirros"
OS_NAME_OPENWRT == "OpenWrt"

\* Metadata["os_name"]: absent, or one of the names the USB devices depend on
UsbOsNames == {"absent", OS_NAME_LINUX, OS_NAME_WINDOWS, OS_NAME_ANDROID}
\* Metadata["os_version"], as its characters: absent (""), "5", "5.2", "6.1"
UsbOsVersions == { <<>>, <<"5">>, <<"5", ".", "2">>, <<"6", ".", "1">> }
\* Metadata["os_distribution"], as its words: absent (""), "OpenWrt", "Cirros",
\* "CentOS", "Windows 10 Pro"
UsbOsDistributions ==
    { <<>>, <<OS_NAME_OPENWRT>>, <<OS_NAME_CIRROS>>, <<"CentOS">>, <<"Windows", "10", "Pro">> }
\* Metadata["disable_usb_kbd"]
UsbKbdFlags == {"absent", "true", "false"}

\* strings.ToLower, word by word
ToLower(words) ==
    [ i \in 1..Len(words) |->
        CASE words[i] = "Windows" -> "windows"
          [] words[i] = "Pro" -> "pro"
          [] words[i] = OS_NAME_OPENWRT -> "openwrt"
          [] words[i] = OS_NAME_CIRROS -> "cirros"
          [] words[i] = "CentOS" -> "centos"
          [] OTHER -> words[i] ]

\* strings.Contains, on words
Contains(words, sub) ==
    \E i \in 0..(Len(words) - Len(sub)) : SubSeq(words, i + 1, i + Len(sub)) = sub

disableUsbKbd(d) == d.disable_usb_kbd = "true"
getOsDistribution(d) == d.os_distribution
getOsVersion(d) == d.os_version

\* a guest no version makes an old Windows: a mutant
IsOldWindowsNever(d) == FALSE

\* IsOldWindows: Windows whose version starts with "5."
IsOldWindows(d) ==
    /\ GetOsName(d) = OS_NAME_WINDOWS
    /\ LET ver == getOsVersion(d)
       IN  Len(ver) > 1 /\ SubSeq(ver, 1, 2) = <<"5", ".">>

\* isWindows10: Windows whose distribution, lower-cased, contains "windows 10"
isWindows10(d) ==
    /\ GetOsName(d) = OS_NAME_WINDOWS
    /\ Contains(ToLower(getOsDistribution(d)), <<"windows", "10">>)

\* the USB devices with the tablet for Android guests too: a mutant
usbDevicesTabletForAndroid(d) ==
    IF d.aarch64
      THEN << <<"usb-tablet", "id=input0", "port=1">>, <<"usb-kbd", "id=input1", "port=2">> >>
      ELSE (IF /\ getOsDistribution(d) \notin { <<OS_NAME_OPENWRT>>, <<OS_NAME_CIRROS>> }
               /\ ~IsOldWindows(d)
               /\ ~isWindows10(d)
               /\ ~disableUsbKbd(d)
              THEN << <<"usb-kbd">> >>
              ELSE <<>>)
           \o (IF ~IsOldWindows(d) THEN << <<"usb-tablet">> >> ELSE <<>>)

\* generateStartScript, "inject usb devices": what it appends to input.Devices;
\* input.QemuArch is d.aarch64 and input.OsName is GetOsName
usbDevices(d) ==
    IF d.aarch64
      THEN << <<"usb-tablet", "id=input0", "port=1">>, <<"usb-kbd", "id=input1", "port=2">> >>
      ELSE (IF /\ getOsDistribution(d) \notin { <<OS_NAME_OPENWRT>>, <<OS_NAME_CIRROS>> }
               /\ ~IsOldWindows(d)
               /\ ~isWindows10(d)
               /\ ~disableUsbKbd(d)
              THEN << <<"usb-kbd">> >>
              ELSE <<>>)
           \o (IF GetOsName(d) = OS_NAME_ANDROID
                 THEN << <<"usb-mouse">> >>
                 ELSE IF ~IsOldWindows(d) THEN << <<"usb-tablet">> >> ELSE <<>>)

UsbInputs ==
    [ aarch64 : BOOLEAN, os_name : UsbOsNames, os_version : UsbOsVersions,
      os_distribution : UsbOsDistributions, disable_usb_kbd : UsbKbdFlags ]

\* generateStartScript appends the USB devices
InjectUsbDevices ==
    /\ bDevs = NoFile
    /\ bDevs' = FileOf(usbDevices(bIn))
    /\ UNCHANGED bIn
    /\ UNCHANGED notUsb

InitUsb ==
    /\ bIn \in UsbInputs
    /\ bDevs = NoFile
    /\ HostIdle
    /\ StopIdle
    /\ StartIdle
    /\ UnifyIdle
    /\ MemIdle
    /\ LaterIdle
    /\ ArpIdle
    /\ CloudIdle

NextUsb == InjectUsbDevices

SpecUsb == InitUsb /\ [][NextUsb]_vars

----------------------------------------------------------------------------
(* The USB input devices: claims C22, C23 *)

\* the device names in the rendered list
UsbNames == IF bDevs = NoFile THEN {} ELSE { dev[1] : dev \in Range(bDevs[1]) }

UsbAndroid == bDevs # NoFile /\ GetOsName(bIn) = OS_NAME_ANDROID
\* a Windows guest of version 5.x
UsbOldWindows ==
    /\ bDevs # NoFile
    /\ bIn.os_name = OS_NAME_WINDOWS
    /\ bIn.os_version = <<"5", ".", "2">>

\* C22 as stated: an Android descriptor's devices hold usb-mouse and no
\* usb-tablet on every host architecture.
C22_AndroidMouseOnEveryArch ==
    UsbAndroid => "usb-mouse" \in UsbNames /\ "usb-tablet" \notin UsbNames

\* C22: on a host that is not aarch64 an Android descriptor's devices hold
\* usb-mouse and no usb-tablet, for every metadata setting; on an aarch64 host
\* they are usb-tablet and usb-kbd, without usb-mouse.
C22_AndroidMouseUnlessAarch64 ==
    UsbAndroid =>
        IF bIn.aarch64
          THEN UsbNames = {"usb-tablet", "usb-kbd"}
          ELSE "usb-mouse" \in UsbNames /\ "usb-tablet" \notin UsbNames

C22_Witness ==
    /\ UsbAndroid
    /\ ~bIn.aarch64
    /\ bIn.disable_usb_kbd = "true"
    /\ UsbNames = {"usb-mouse"}

\* C23 as stated: an Android guest's devices are usb-mouse only, and an old
\* Windows guest's hold neither usb-tablet nor usb-kbd.
C23_MouseOnlyAndNothingForOldWindows ==
    /\ UsbAndroid => UsbNames = {"usb-mouse"}
    /\ UsbOldWindows => "usb-tablet" \notin UsbNames /\ "usb-kbd" \notin UsbNames

\* C23: on a host that is not aarch64, an Android guest's only pointing device is
\* usb-mouse and it has usb-kbd unless disable_usb_kbd is true or the
\* distribution is OpenWrt or Cirros; an old Windows guest has neither
\* usb-tablet nor usb-kbd whatever the flag and the distribution are. On an
\* aarch64 host both have usb-tablet and usb-kbd.
C23_PointingDeviceByOs ==
    /\ UsbAndroid /\ ~bIn.aarch64 =>
          /\ UsbNames \ {"usb-kbd"} = {"usb-mouse"}
          /\ "usb-kbd" \in UsbNames <=>
                /\ bIn.disable_usb_kbd # "true"
                /\ bIn.os_distribution \notin { <<OS_NAME_OPENWRT>>, <<OS_NAME_CIRROS>> }
    /\ UsbOldWindows /\ ~bIn.aarch64 => UsbNames = {}
    /\ (UsbAndroid \/ UsbOldWindows) /\ bIn.aarch64 => UsbNames = {"usb-tablet", "usb-kbd"}

C23_Witness ==
    /\ UsbOldWindows
    /\ ~bIn.aarch64
    /\ bIn.disable_usb_kbd = "false"
    /\ bIn.os_distribution = <<"CentOS">>
    /\ UsbNames = {}

----------------------------------------------------------------------------
(* initMemDescFromMemoryInfo: claim C24 *)

\* C24: a call of initMemDescFromMemoryInfo that returns an error leaves
\* Desc.MemDesc, its slot list included, as it was before the call.
C24_ErrorLeavesMemDesc ==
    [][mRet' = "err" => mMemDesc' = mMemDesc]_vars

\* an error of either kind, with a description to keep
C24_Witness ==
    /\ mRet = "err"
    /\ mMemDesc # NoFile
    /\ mMemDesc[1].MemSlots = <<>>
    /\ Len(mDevs) = 2
    /\ \/ \A i \in 1..Len(mDevs) : mDevs[i].Type = "dimm" /\ mDevs[i].HasID
       \/ mDevs[1].Type = "dimm" /\ mDevs[1].HasID /\ mDevs[2].Type # "dimm"

----------------------------------------------------------------------------
(* RemoteDeployGuestForCreate *)

\* the longest list GetSkus returns
MaxSkus == 3

\* the names of the server SKUs of the guest's CPU count and memory size
SkuNames == {"sku-1", "sku-2", "sku-3"}

\* what ServerSkuManager.GetSkus returns: SKU records in the manager's order;
\* two records may bear one name
SkuLists == SeqsUpTo(SkuNames, MaxSkus)

\* iVM.GetGlobalId() of the VM CreateVM returns
VmGlobalId == "vm-1"

\* lockman.LockObject(ctx, guest)
LockObject ==
    /\ ~lockHeld
    /\ lockHeld' = TRUE

\* lockman.ReleaseObject(ctx, guest)
ReleaseObject == lockHeld' = FALSE

\* ihost, err := host.GetIHost(ctx)
CreateGetIHost ==
    /\ kPc = "start"
    /\ \E ok \in BOOLEAN :
        /\ kPc' = IF ok THEN "lock" ELSE "done"
        /\ kRet' = IF ok THEN kRet ELSE "err"
    /\ UNCHANGED <<kAuto, kSkus, kOld, kType, kGuestType, kExtId, kTries, kI, kErr>>
    /\ UNCHANGED lockHeld
    /\ UNCHANGED notCreate

\* lockman.LockObject(ctx, guest); defer lockman.ReleaseObject(ctx, guest)
CreateLock ==
    /\ kPc = "lock"
    /\ LockObject
    /\ kPc' = "create"
    /\ UNCHANGED <<kAuto, kSkus, kOld, kType, kGuestType, kExtId, kTries, kI, kErr, kRet>>
    /\ UNCHANGED notCreate

\* iVM, err := ihost.CreateVM(&desc) with the requested instance type; done
\* unless it failed and EnableAutoSwitchServerSku is set
CreateVM ==
    /\ kPc = "create"
    /\ \E ok \in BOOLEAN :
        /\ kTries' = Append(kTries, [sku |-> kType, ok |-> ok])
        /\ kErr' = ~ok
        /\ kPc' = IF ok \/ ~kAuto THEN "created" ELSE "skus"
    /\ UNCHANGED <<kAuto, kSkus, kOld, kType, kGuestType, kExtId, kI, kRet>>
    /\ UNCHANGED lockHeld
    /\ UNCHANGED notCreate

\* skus, e := models.ServerSkuManager.GetSkus(...); oldSku := desc.InstanceType
CreateGetSkus ==
    /\ kPc = "skus"
    /\ \E ok \in BOOLEAN :
        /\ kPc' = IF ok THEN "loop" ELSE "created"
        /\ kOld' = IF ok THEN kType ELSE kOld
    /\ kI' = 1
    /\ UNCHANGED <<kAuto, kSkus, kType, kGuestType, kExtId, kTries, kErr, kRet>>
    /\ UNCHANGED lockHeld
    /\ UNCHANGED notCreate

\* a loop that tries the requested SKU again: a mutant
CreateTrySkuAnyName ==
    /\ kPc = "loop"
    /\ kI <= Len(kSkus)
    /\ \E ok \in BOOLEAN :
        /\ kType' = kSkus[kI]
        /\ kTries' = Append(kTries, [sku |-> kSkus[kI], ok |-> ok])
        /\ kErr' = ~ok
        /\ kGuestType' = IF ok THEN kSkus[kI] ELSE kGuestType
        /\ kPc' = IF ok THEN "created" ELSE kPc
        /\ kI' = IF ok THEN kI ELSE kI + 1
    /\ UNCHANGED <<kAuto, kSkus, kOld, kExtId, kRet>>
    /\ UNCHANGED lockHeld
    /\ UNCHANGED notCreate

\* for i := range skus: a record named as oldSku is passed over; any other
\* becomes desc.InstanceType and CreateVM is called; on success db.Update
\* sets guest.InstanceType (its error is not looked at) and the loop returns
CreateTrySku ==
    /\ kPc = "loop"
    /\ kI <= Len(kSkus)
    /\ IF kSkus[kI] # kOld
         THEN \E ok \in BOOLEAN :
                /\ kType' = kSkus[kI]
                /\ kTries' = Append(kTries, [sku |-> kSkus[kI], ok |-> ok])
                /\ kErr' = ~ok
                /\ kGuestType' = IF ok THEN kSkus[kI] ELSE kGuestType
                /\ kPc' = IF ok THEN "created" ELSE kPc
                /\ kI' = IF ok THEN kI ELSE kI + 1
         ELSE /\ kI' = kI + 1
              /\ UNCHANGED <<kType, kTries, kErr, kGuestType, kPc>>
    /\ UNCHANGED <<kAuto, kSkus, kOld, kExtId, kRet>>
    /\ UNCHANGED lockHeld
    /\ UNCHANGED notCreate

\* the loop is over: return iVM, err
CreateLoopEnd ==
    /\ kPc = "loop"
    /\ kI > Len(kSkus)
    /\ kPc' = "created"
    /\ UNCHANGED <<kAuto, kSkus, kOld, kType, kGuestType, kExtId, kTries, kI, kErr, kRet>>
    /\ UNCHANGED lockHeld
    /\ UNCHANGED notCreate

\* a release that is skipped when the creation failed: a mutant
CreateSetExternalIdKeepsLock ==
    /\ kPc = "created"
    /\ IF kErr
         THEN /\ kRet' = "err"
              /\ kPc' = "done"
              /\ UNCHANGED kExtId
              /\ UNCHANGED lockHeld
         ELSE /\ kExtId' = VmGlobalId
              /\ kPc' = "sync"
              /\ UNCHANGED kRet
              /\ ReleaseObject
    /\ UNCHANGED <<kAuto, kSkus, kOld, kType, kGuestType, kTries, kI, kErr>>
    /\ UNCHANGED notCreate

\* if err != nil { return nil, err }; db.SetExternalId(guest, userCred,
\* iVM.GetGlobalId()); the deferred release runs as the closure returns
CreateSetExternalId ==
    /\ kPc = "created"
    /\ IF kErr
         THEN /\ kRet' = "err"
              /\ kPc' = "done"
              /\ UNCHANGED kExtId
         ELSE /\ kExtId' = VmGlobalId
              /\ kPc' = "sync"
              /\ UNCHANGED kRet
    /\ ReleaseObject
    /\ UNCHANGED <<kAuto, kSkus, kOld, kType, kGuestType, kTries, kI, kErr>>
    /\ UNCHANGED notCreate

\* ihost, err = guest.GetDriver().RemoteDeployGuestSyncHost(...)
CreateSyncHost ==
    /\ kPc = "sync"
    /\ \E ok \in BOOLEAN :
        /\ kPc' = IF ok THEN "wait" ELSE "done"
        /\ kRet' = IF ok THEN kRet ELSE "err"
    /\ UNCHANGED <<kAuto, kSkus, kOld, kType, kGuestType, kExtId, kTries, kI, kErr>>
    /\ UNCHANGED lockHeld
    /\ UNCHANGED notCreate

\* cloudprovider.WaitStatusWithInstanceErrorCheck(iVM, initialState, ...), and
\* what follows it: the function returns the VM's data or an error
CreateWaitStatus ==
    /\ kPc = "wait"
    /\ kPc' = "done"
    /\ kRet' \in {"ok", "err"}
    /\ UNCHANGED <<kAuto, kSkus, kOld, kType, kGuestType, kExtId, kTries, kI, kErr>>
    /\ UNCHANGED lockHeld
    /\ UNCHANGED notCreate

\* nothing but the guest manager's and the other drivers' parts
NotManagedIdle ==
    /\ HostIdle
    /\ StopIdle
    /\ StartIdle
    /\ UnifyIdle
    /\ MemIdle
    /\ LaterIdle
    /\ ArpIdle
    /\ UsbIdle
    /\ UndeployIdle
    /\ LbIdle

\* the guest asks for one SKU and has no external id yet
InitCreate ==
    /\ kPc = "start"
    /\ kAuto \in BOOLEAN
    /\ kSkus \in SkuLists
    /\ kOld = ""
    /\ kType \in SkuNames
    /\ kGuestType = kType
    /\ kExtId = ""
    /\ kTries = <<>>
    /\ kI = 1
    /\ kErr = FALSE
    /\ kRet = "none"
    /\ lockHeld = FALSE
    /\ DeployIdle
    /\ RebuildIdle
    /\ NotManagedIdle

NextCreate ==
    \/ CreateGetIHost
    \/ CreateLock
    \/ CreateVM
    \/ CreateGetSkus
    \/ CreateTrySku
    \/ CreateLoopEnd
    \/ CreateSetExternalId
    \/ CreateSyncHost
    \/ CreateWaitStatus

----------------------------------------------------------------------------
(* RemoteDeployGuestForDeploy *)

\* desc.Password and desc.PublicKey: empty or set
Passwords == {"", "passwd"}
PublicKeys == {"", "ssh-rsa"}
\* guest.GetOldPassword: the password decrypted from the guest's key, or none
OldPasswords == {"", "old-passwd"}

\* the credentials with the password kept beside a public key: a mutant
deployCredentialsKeepPassword(deleteKeypair, password, publicKey) ==
    IF deleteKeypair
      THEN [Password |-> "", PublicKey |-> ""]
      ELSE [Password |-> password, PublicKey |-> publicKey]

\* if deleteKeypair { desc.Password, desc.PublicKey = "", "" };
\* if len(desc.PublicKey) > 0 { desc.Password = "" }
deployCredentials(deleteKeypair, password, publicKey) ==
    LET c == IF deleteKeypair
               THEN [Password |-> "", PublicKey |-> ""]
               ELSE [Password |-> password, PublicKey |-> publicKey]
    IN  IF c.PublicKey # "" THEN [c EXCEPT !.Password = ""] ELSE c

\* iVM, err := ihost.GetIVMById(guest.GetExternalId()); an error or no VM is
\* "cannot find vm"; iVM.UpdateUserData's error is logged only
DeployGetIVM ==
    /\ dPc = "start"
    /\ \E found \in BOOLEAN :
        /\ dPc' = IF found THEN "lock" ELSE "done"
        /\ dRet' = IF found THEN dRet ELSE "err"
    /\ UNCHANGED <<dDelKey, dPass, dKey, dArgs, dData>>
    /\ UNCHANGED lockHeld
    /\ UNCHANGED notDeploy

\* lockman.LockObject(ctx, guest); defer lockman.ReleaseObject(ctx, guest)
DeployLock ==
    /\ dPc = "lock"
    /\ LockObject
    /\ dPc' = "locked"
    /\ UNCHANGED <<dDelKey, dPass, dKey, dArgs, dData, dRet>>
    /\ UNCHANGED notDeploy

\* the credentials are settled in the function's copy of desc, iVM.DeployVM
\* is called with them; after a success an empty password becomes
\* guest.GetOldPassword; the deferred release runs as the closure returns
DeployVM ==
    /\ dPc = "locked"
    /\ LET c == deployCredentials(dDelKey, dPass, dKey)
       IN  /\ dArgs' = FileOf([Password |-> c.Password, PublicKey |-> c.PublicKey,
                               deleteKeypair |-> dDelKey])
           /\ \E ok \in BOOLEAN :
                IF ok
                  THEN /\ \E old \in OldPasswords :
                            dData' = FileOf([c EXCEPT !.Password =
                                                IF @ = "" THEN old ELSE @])
                       /\ dPc' = "fetch"
                       /\ UNCHANGED dRet
                  ELSE /\ dPc' = "done"
                       /\ dRet' = "err"
                       /\ UNCHANGED dData
    /\ ReleaseObject
    /\ UNCHANGED <<dDelKey, dPass, dKey>>
    /\ UNCHANGED notDeploy

\* data := fetchIVMinfo(...); return data, nil
DeployFetch ==
    /\ dPc = "fetch"
    /\ dPc' = "done"
    /\ dRet' = "ok"
    /\ UNCHANGED <<dDelKey, dPass, dKey, dArgs, dData>>
    /\ UNCHANGED lockHeld
    /\ UNCHANGED notDeploy

InitDeploy ==
    /\ dPc = "start"
    /\ dDelKey \in BOOLEAN
    /\ dPass \in Passwords
    /\ dKey \in PublicKeys
    /\ dArgs = NoFile
    /\ dData = NoFile
    /\ dRet = "none"
    /\ lockHeld = FALSE
    /\ CreateIdle
    /\ RebuildIdle
    /\ NotManagedIdle

NextDeploy ==
    \/ DeployGetIVM
    \/ DeployLock
    \/ DeployVM
    \/ DeployFetch

----------------------------------------------------------------------------
(* RemoteDeployGuestForRebuildRoot *)

\* the most data disks a guest has
MaxDataDisks == 1
\* maxWaitSecs := 300
maxWaitSecs == 300
\* time.Sleep(time.Second * 5); waited += 5
WAIT_STEP_SECS == 5

\* the global ids of the VM's system disk: the rebuilt one, the one before
DiskIds == {"disk-new", "disk-old"}

\* what iVM.GetIDisks() returns: an error, or the number of disks and the
\* first disk's global id
IDisksResults ==
    { [err |-> TRUE, n |-> 0, first |-> ""] } \cup
    { [err |-> FALSE, n |-> 0, first |-> ""] } \cup
    { [err |-> FALSE, n |-> c, first |-> f] : c \in 1..(MaxDataDisks + 1), f \in DiskIds }

\* a wait that gives up as soon as the limit is reached: a mutant
waitTimedOutAtLimit(waited) == waited >= maxWaitSecs

\* if waited > maxWaitSecs
waitTimedOut(waited) == waited > maxWaitSecs

\* the disks are consistent: no fewer than len(desc.DataDisks)+1, and the
\* first is the disk RebuildRoot returned
disksConsistent(seen, dataDisks, diskId) ==
    /\ ~(seen.n < dataDisks + 1)
    /\ seen.first = diskId

\* iVM, err := ihost.GetIVMById(guest.GetExternalId()); with user data,
\* iVM.UpdateUserData and cloudprovider.WaitMultiStatus, before the lock
RebuildGetIVM ==
    /\ wPc = "start"
    /\ \E ok \in BOOLEAN :
        /\ wPc' = IF ok THEN "lock" ELSE "done"
        /\ wRet' = IF ok THEN wRet ELSE "err"
    /\ UNCHANGED <<wDataDisks, wDiskId, wWaited, wPolls, wSeen>>
    /\ UNCHANGED lockHeld
    /\ UNCHANGED notRebuild

\* lockman.LockObject(ctx, guest); defer lockman.ReleaseObject(ctx, guest)
RebuildLock ==
    /\ wPc = "lock"
    /\ LockObject
    /\ wPc' = "locked"
    /\ UNCHANGED <<wDataDisks, wDiskId, wWaited, wPolls, wSeen, wRet>>
    /\ UNCHANGED notRebuild

\* return iVM.RebuildRoot(ctx, &conf); the deferred release runs
RebuildRoot ==
    /\ wPc = "locked"
    /\ \E ok \in BOOLEAN :
        IF ok
          THEN /\ wDiskId' \in DiskIds
               /\ wPc' = "wait"
               /\ UNCHANGED wRet
          ELSE /\ wPc' = "done"
               /\ wRet' = "err"
               /\ UNCHANGED wDiskId
    /\ ReleaseObject
    /\ UNCHANGED <<wDataDisks, wWaited, wPolls, wSeen>>
    /\ UNCHANGED notRebuild

\* err = cloudprovider.WaitStatus(iVM, initialState, ...); maxWaitSecs := 300;
\* waited := 0
RebuildWaitStatus ==
    /\ wPc = "wait"
    /\ \E ok \in BOOLEAN :
        /\ wPc' = IF ok THEN "poll" ELSE "done"
        /\ wRet' = IF ok THEN wRet ELSE "err"
    /\ wWaited' = 0
    /\ UNCHANGED <<wDataDisks, wDiskId, wPolls, wSeen>>
    /\ UNCHANGED lockHeld
    /\ UNCHANGED notRebuild

\* one pass of "for { ... }": GetIDisks; its error is returned; consistent
\* disks end the loop and the function returns the VM's data; otherwise a
\* timeout is returned once waited > maxWaitSecs, else sleep and waited += 5
RebuildPoll ==
    /\ wPc = "poll"
    /\ \E seen \in IDisksResults :
        /\ wSeen' = seen
        /\ wPolls' = wPolls + 1
        /\ IF seen.err
             THEN /\ wRet' = "errDisks"
                  /\ wPc' = "done"
                  /\ UNCHANGED wWaited
             ELSE IF disksConsistent(seen, wDataDisks, wDiskId)
                    THEN /\ wRet' = "ok"
                         /\ wPc' = "done"
                         /\ UNCHANGED wWaited
                    ELSE IF waitTimedOut(wWaited)
                           THEN /\ wRet' = IF seen.n < wDataDisks + 1
                                             THEN "timeout" ELSE "inconsistent"
                                /\ wPc' = "done"
                                /\ UNCHANGED wWaited
                           ELSE /\ wWaited' = wWaited + WAIT_STEP_SECS
                                /\ UNCHANGED <<wPc, wRet>>
    /\ UNCHANGED <<wDataDisks, wDiskId>>
    /\ UNCHANGED lockHeld
    /\ UNCHANGED notRebuild

InitRebuild ==
    /\ wPc = "start"
    /\ wDataDisks \in 0..MaxDataDisks
    /\ wDiskId = ""
    /\ wWaited = 0
    /\ wPolls = 0
    /\ wSeen = <<>>
    /\ wRet = "none"
    /\ lockHeld = FALSE
    /\ CreateIdle
    /\ DeployIdle
    /\ NotManagedIdle

NextRebuild ==
    \/ RebuildGetIVM
    \/ RebuildLock
    \/ RebuildRoot
    \/ RebuildWaitStatus
    \/ RebuildPoll

----------------------------------------------------------------------------
(* The three RemoteDeployGuestFor... functions, one called at a time *)

InitManaged == InitCreate \/ InitDeploy \/ InitRebuild

NextManaged == NextCreate \/ NextDeploy \/ NextRebuild

SpecManaged == InitManaged /\ [][NextManaged]_vars

\* the task's goroutine is scheduled, and the cloud's calls and the sleeps
\* return
SpecManagedLive == SpecManaged /\ WF_vars(NextManaged)

----------------------------------------------------------------------------
(* RemoteDeployGuestForCreate: claim C25 *)

\* the SKU records GetSkus returned whose name is not the requested one
SkusOtherThan(orig) == SelectSeq(kSkus, LAMBDA n : n # orig)

----------------------------------------------------------------------------
(* The guest's lock in the three functions: claim C26 *)

\* one of the functions has returned
ManagedReturned == kPc = "done" \/ dPc = "done" \/ wPc = "done"

\* one of the functions is past its locked part: waiting for the VM's status,
\* polling its disks, or fetching its data
ManagedWaiting == kPc \in {"sync", "wait"} \/ dPc = "fetch" \/ wPc \in {"wait", "poll"}

\* C26: the lock on the guest is not held once RemoteDeployGuestForCreate,
\* ForDeploy or ForRebuildRoot has returned, however it returned, and is not
\* held while the function waits for the VM's status.
C26_LockReleased ==
    ManagedReturned \/ ManagedWaiting => ~lockHeld

\* an error return from inside the locked part: every CreateVM failed
C26_Witness ==
    /\ kPc = "done"
    /\ kRet = "err"
    /\ Len(kTries) = 2
    /\ ~lockHeld

----------------------------------------------------------------------------
(* The disk loop of RemoteDeployGuestForRebuildRoot: claim C27 *)

\* C27: the loop ends. It ends well only when the last GetIDisks returned no
\* fewer than len(DataDisks)+1 disks with the rebuilt disk first, and goes on
\* only when it did not; it ends with GetIDisks' error when there is one; it
\* ends with a timeout only when waited is over 300, which is at the 62nd
\* call, so there are never more than 62 calls.
C27_DiskLoopEnds ==
    /\ [](wPolls <= 62)
    /\ [](wRet = "ok" => ~wSeen.err /\ disksConsistent(wSeen, wDataDisks, wDiskId))
    /\ [](wRet = "errDisks" => wSeen.err)
    /\ [](wRet \in {"timeout", "inconsistent"} =>
            /\ ~wSeen.err
            /\ ~disksConsistent(wSeen, wDataDisks, wDiskId)
            /\ wWaited > maxWaitSecs
            /\ wPolls = 62)
    /\ [](wPc = "poll" /\ wPolls > 0 =>
            /\ ~wSeen.err
            /\ ~disksConsistent(wSeen, wDataDisks, wDiskId)
            /\ wWaited = wPolls * WAIT_STEP_SECS)
    /\ ((wPc = "poll") ~> (wPc = "done"))

\* the 62nd call times out
C27_Witness ==
    /\ wPc = "done"
    /\ wRet = "timeout"
    /\ wPolls = 62
    /\ wWaited = 305

----------------------------------------------------------------------------
(* The credentials of DeployVM: claim C28 *)

\* C28: DeployVM is never called with a password and a public key both set;
\* with __delete_keypair__ both are empty; otherwise a public key is passed
\* on with an empty password, and a password is passed on only without a
\* public key.
C28_PasswordOrPublicKey ==
    [][dArgs' # dArgs =>
        LET a == dArgs'[1]
        IN  /\ ~(a.Password # "" /\ a.PublicKey # "")
            /\ a.deleteKeypair = dDelKey
            /\ dDelKey => a.Password = "" /\ a.PublicKey = ""
            /\ ~dDelKey /\ dKey # "" => a.Password = "" /\ a.PublicKey = dKey
            /\ ~dDelKey /\ dKey = "" => a.Password = dPass /\ a.PublicKey = ""]_vars

\* a password and a public key were given, the key alone was passed on
C28_Witness ==
    /\ dArgs # NoFile
    /\ ~dDelKey
    /\ dPass # ""
    /\ dKey # ""
    /\ dArgs[1].Password = ""
    /\ dArgs[1].PublicKey = dKey

----------------------------------------------------------------------------
(* RequestUndeployGuestOnHost *)

\* the most disks a guest has
MaxDisks == 2

DISK_DEALLOC == "deallocated"
\* api.STORAGE_LOCAL_TYPES
STORAGE_LOCAL_TYPES == {"local"}

\* a guest's disk: AutoDelete; what disk.GetStorage() gives, nil (its error is
\* dropped) or a storage of a local or another type; what disk.GetIDisk gives,
\* ErrNotFound, another error, or a cloud disk that is in use or deallocated
GuestDisks ==
    [ AutoDelete : BOOLEAN,
      storage : {NoFile, FileOf("local"), FileOf("rbd")},
      idisk : {"notfound", "error", "ready", DISK_DEALLOC} ]

\* what a lookup in the cloud gives: the object, ErrNotFound, another error
Lookups == {"ok", "notfound", "error"}

\* a call made and what it gave
Call(call, disk, res) == [call |-> call, disk |-> disk, res |-> res]

\* the loop's step with deallocated disks deleted too: a mutant
undeployDiskStepAnyStatus(disk) ==
    IF ~disk.AutoDelete THEN "skip"
    ELSE IF disk.storage = NoFile THEN "panic"
    ELSE IF disk.storage[1] \in STORAGE_LOCAL_TYPES THEN "skip"
    ELSE IF disk.idisk = "notfound" THEN "skip"
    ELSE IF disk.idisk = "error" THEN "err"
    ELSE "delete"

\* what the loop does with one disk: storage.StorageType of a nil storage
\* panics, and is read only when disk.AutoDelete holds
undeployDiskStep(disk) ==
    IF ~disk.AutoDelete THEN "skip"
    ELSE IF disk.storage = NoFile THEN "panic"
    ELSE IF disk.storage[1] \in STORAGE_LOCAL_TYPES THEN "skip"
    ELSE IF disk.idisk = "notfound" THEN "skip"
    ELSE IF disk.idisk = "error" THEN "err"
    ELSE IF disk.idisk = DISK_DEALLOC THEN "skip"
    ELSE "delete"

\* ihost, err := host.GetIHost(ctx): ErrNotFound ends the task well
UndeployGetIHost ==
    /\ nPc = "start"
    /\ \E r \in Lookups :
        /\ nCalls' = Append(nCalls, Call("GetIHost", 0, r))
        /\ nPc' = IF r = "ok" THEN "extid" ELSE "done"
        /\ nRet' = CASE r = "ok" -> nRet [] r = "notfound" -> "ok" [] OTHER -> "err"
    /\ UNCHANGED <<nExtId, nDisks, nI>>
    /\ UNCHANGED notUndeploy

\* if len(guest.ExternalId) == 0 { return nil, nil }
UndeployCheckExternalId ==
    /\ nPc = "extid"
    /\ nPc' = IF nExtId = "" THEN "done" ELSE "ivm"
    /\ nRet' = IF nExtId = "" THEN "ok" ELSE nRet
    /\ UNCHANGED <<nExtId, nDisks, nI, nCalls>>
    /\ UNCHANGED notUndeploy

\* ivm, err := ihost.GetIVMById(guest.ExternalId): ErrNotFound ends the task well
UndeployGetIVM ==
    /\ nPc = "ivm"
    /\ \E r \in Lookups :
        /\ nCalls' = Append(nCalls, Call("GetIVMById", 0, r))
        /\ nPc' = IF r = "ok" THEN "delete" ELSE "done"
        /\ nRet' = CASE r = "ok" -> nRet [] r = "notfound" -> "ok" [] OTHER -> "err"
    /\ UNCHANGED <<nExtId, nDisks, nI>>
    /\ UNCHANGED notUndeploy

\* err = ivm.DeleteVM(ctx); disks, err := guest.GetDisks()
UndeployDeleteVM ==
    /\ nPc = "delete"
    /\ \E ok \in BOOLEAN, disksOk \in BOOLEAN :
        /\ nCalls' = Append(nCalls, Call("DeleteVM", 0, IF ok THEN "ok" ELSE "error"))
        /\ nPc' = IF ok /\ disksOk THEN "disks" ELSE "done"
        /\ nRet' = IF ok /\ disksOk THEN nRet ELSE "err"
    /\ nI' = 1
    /\ UNCHANGED <<nExtId, nDisks>>
    /\ UNCHANGED notUndeploy

\* for _, disk := range disks: one disk
UndeployDisk ==
    /\ nPc = "disks"
    /\ nI <= Len(nDisks)
    /\ LET step == undeployDiskStep(nDisks[nI])
       IN  CASE step = "skip" ->
                  /\ nI' = nI + 1
                  /\ UNCHANGED <<nPc, nRet, nCalls>>
             [] step = "panic" ->
                  /\ nPc' = "done"
                  /\ nRet' = "panic"
                  /\ UNCHANGED <<nI, nCalls>>
             [] step = "err" ->
                  /\ nPc' = "done"
                  /\ nRet' = "err"
                  /\ UNCHANGED <<nI, nCalls>>
             [] OTHER ->
                  \E ok \in BOOLEAN :
                      /\ nCalls' = Append(nCalls, Call("Delete", nI, IF ok THEN "ok" ELSE "error"))
                      /\ nI' = IF ok THEN nI + 1 ELSE nI
                      /\ nPc' = IF ok THEN nPc ELSE "done"
                      /\ nRet' = IF ok THEN nRet ELSE "err"
    /\ UNCHANGED <<nExtId, nDisks>>
    /\ UNCHANGED notUndeploy

\* the loop is over: return nil, nil
UndeployReturn ==
    /\ nPc = "disks"
    /\ nI > Len(nDisks)
    /\ nPc' = "done"
    /\ nRet' = "ok"
    /\ UNCHANGED <<nExtId, nDisks, nI, nCalls>>
    /\ UNCHANGED notUndeploy

InitUndeploy ==
    /\ nPc = "start"
    /\ nExtId \in {"", VmGlobalId}
    /\ nDisks \in SeqsUpTo(GuestDisks, MaxDisks)
    /\ nI = 1
    /\ nCalls = <<>>
    /\ nRet = "none"
    /\ HostIdle
    /\ StopIdle
    /\ StartIdle
    /\ UnifyIdle
    /\ MemIdle
    /\ LaterIdle
    /\ ArpIdle
    /\ UsbIdle
    /\ lockHeld = FALSE
    /\ CreateIdle
    /\ DeployIdle
    /\ RebuildIdle
    /\ LbIdle

NextUndeploy ==
    \/ UndeployGetIHost
    \/ UndeployCheckExternalId
    \/ UndeployGetIVM
    \/ UndeployDeleteVM
    \/ UndeployDisk
    \/ UndeployReturn

SpecUndeploy == InitUndeploy /\ [][NextUndeploy]_vars

----------------------------------------------------------------------------
(* RequestUndeployGuestOnHost: claim C29 *)

\* the calls of one kind, as positions in the list of calls
CallsOf(call) == { p \in 1..Len(nCalls) : nCalls[p].call = call }

\* DeleteVM is called only with an external id and a host and a VM found;
\* cloud disks are deleted only after a DeleteVM that succeeded, and only
\* disks that are auto-delete, on storage that is not local, found in the
\* cloud and not deallocated
UndeployCallsInOrder ==
    /\ \A p \in CallsOf("DeleteVM") :
          /\ nExtId # ""
          /\ p = 3
          /\ nCalls[1] = Call("GetIHost", 0, "ok")
          /\ nCalls[2] = Call("GetIVMById", 0, "ok")
    /\ \A p \in CallsOf("Delete") :
          /\ nCalls[3] = Call("DeleteVM", 0, "ok")
          /\ LET disk == nDisks[nCalls[p].disk]
             IN  /\ disk.AutoDelete
                 /\ disk.storage # NoFile
                 /\ disk.storage[1] \notin STORAGE_LOCAL_TYPES
                 /\ disk.idisk = "ready"

\* the task is over without DeleteVM because the external id is empty or the
\* host or the VM was not found
UndeployNothingToDelete ==
    /\ nPc = "done"
    /\ \/ nExtId = ""
       \/ \E p \in 1..Len(nCalls) : nCalls[p].res = "notfound"

\* C29 as stated: with an empty external id, or a host or VM not found, the
\* task makes no DeleteVM call and ends well.
C29_NothingToDeleteEndsWell ==
    /\ UndeployCallsInOrder
    /\ UndeployNothingToDelete => CallsOf("DeleteVM") = {} /\ nRet = "ok"

\* what the task does do: a host lookup that fails otherwise than with
\* ErrNotFound fails the task whatever the external id is
UndeployEndsAsTheHostLookupAllows ==
    /\ UndeployCallsInOrder
    /\ UndeployNothingToDelete =>
          /\ CallsOf("DeleteVM") = {}
          /\ nRet = (IF nCalls[1].res = "error" THEN "err" ELSE "ok")

\* a deallocated disk is passed over and the next one is deleted
UndeployDeletedOneDisk ==
    /\ nPc = "done"
    /\ nRet = "ok"
    /\ Len(nDisks) = 2
    /\ nDisks[1].AutoDelete /\ nDisks[1].storage = FileOf("rbd") /\ nDisks[1].idisk = DISK_DEALLOC
    /\ nDisks[2].AutoDelete /\ nDisks[2].storage = FileOf("rbd") /\ nDisks[2].idisk = "ready"
    /\ CallsOf("Delete") = {4}
    /\ nCalls[4].disk = 2

----------------------------------------------------------------------------
(* SLoadbalancer.Delete *)

\* the most pools, backends of a pool, and listeners of a load balancer
MaxPools == 2
MaxBackends == 2
MaxListeners == 2

\* a pool of self.Pools as the region has it: the number of its backends and
\* whether it has a health monitor (pool.HealthMonitorID)
LbPools == [ backends : 0..MaxBackends, monitor : BOOLEAN ]

\* a region call that succeeded
Op(op, pool, n) == <<op, pool, n>>

\* self.region.getLoadBalancerBackends(res.Id)
LbGetBackends ==
    /\ ePc = "pools"
    /\ eI <= Len(ePools)
    /\ \E ok \in BOOLEAN :
        /\ ePc' = IF ok THEN "backends" ELSE "done"
        /\ eRet' = IF ok THEN eRet ELSE "err"
        /\ eBackends' = IF ok THEN [ j \in 1..ePools[eI].backends |-> j ] ELSE eBackends
    /\ eJ' = 1
    /\ UNCHANGED <<ePools, eListeners, eI, eLog>>
    /\ UNCHANGED notLb

\* self.region.RemoveLoadBalancerBackend(res.Id, backend.ID)
LbRemoveBackend ==
    /\ ePc = "backends"
    /\ eJ <= Len(eBackends)
    /\ \E ok \in BOOLEAN :
        /\ eLog' = IF ok THEN Append(eLog, Op("RemoveLoadBalancerBackend", eI, eBackends[eJ]))
                         ELSE eLog
        /\ eJ' = IF ok THEN eJ + 1 ELSE eJ
        /\ ePc' = IF ok THEN ePc ELSE "done"
        /\ eRet' = IF ok THEN eRet ELSE "err"
    /\ UNCHANGED <<ePools, eListeners, eI, eBackends>>
    /\ UNCHANGED notLb

\* pool, err := self.region.GetLoadBalancerBackendGroup(res.Id)
LbGetBackendGroup ==
    /\ ePc = "backends"
    /\ eJ > Len(eBackends)
    /\ \E ok \in BOOLEAN :
        /\ ePc' = IF ok THEN "monitor" ELSE "done"
        /\ eRet' = IF ok THEN eRet ELSE "err"
    /\ UNCHANGED <<ePools, eListeners, eI, eJ, eBackends, eLog>>
    /\ UNCHANGED notLb

\* a health check whose failed deletion is passed over: a mutant
LbDeleteHealthCheckGoesOn ==
    /\ ePc = "monitor"
    /\ IF ePools[eI].monitor
         THEN \E ok \in BOOLEAN :
                /\ eLog' = IF ok THEN Append(eLog, Op("DeleteLoadbalancerHealthCheck", eI, 0))
                                 ELSE eLog
                /\ ePc' = "pool"
                /\ UNCHANGED eRet
         ELSE /\ ePc' = "pool"
              /\ UNCHANGED <<eLog, eRet>>
    /\ UNCHANGED <<ePools, eListeners, eI, eJ, eBackends>>
    /\ UNCHANGED notLb

\* if len(pool.HealthMonitorID) > 0 { DeleteLoadbalancerHealthCheck(...) }
LbDeleteHealthCheck ==
    /\ ePc = "monitor"
    /\ IF ePools[eI].monitor
         THEN \E ok \in BOOLEAN :
                /\ eLog' = IF ok THEN Append(eLog, Op("DeleteLoadbalancerHealthCheck", eI, 0))
                                 ELSE eLog
                /\ ePc' = IF ok THEN "pool" ELSE "done"
                /\ eRet' = IF ok THEN eRet ELSE "err"
         ELSE /\ ePc' = "pool"
              /\ UNCHANGED <<eLog, eRet>>
    /\ UNCHANGED <<ePools, eListeners, eI, eJ, eBackends>>
    /\ UNCHANGED notLb

\* self.region.DeleteLoadBalancerBackendGroup(res.Id); the next pool
LbDeleteBackendGroup ==
    /\ ePc = "pool"
    /\ \E ok \in BOOLEAN :
        /\ eLog' = IF ok THEN Append(eLog, Op("DeleteLoadBalancerBackendGroup", eI, 0)) ELSE eLog
        /\ eI' = IF ok THEN eI + 1 ELSE eI
        /\ ePc' = IF ok THEN "pools" ELSE "done"
        /\ eRet' = IF ok THEN eRet ELSE "err"
    /\ UNCHANGED <<ePools, eListeners, eJ, eBackends>>
    /\ UNCHANGED notLb

\* the loop over self.Pools is over
LbPoolsDone ==
    /\ ePc = "pools"
    /\ eI > Len(ePools)
    /\ ePc' = "listeners"
    /\ eJ' = 1
    /\ UNCHANGED <<ePools, eListeners, eI, eBackends, eLog, eRet>>
    /\ UNCHANGED notLb

\* self.region.DeleteElbListener(lis.Id)
LbDeleteElbListener ==
    /\ ePc = "listeners"
    /\ eJ <= Len(eListeners)
    /\ \E ok \in BOOLEAN :
        /\ eLog' = IF ok THEN Append(eLog, Op("DeleteElbListener", 0, eListeners[eJ])) ELSE eLog
        /\ eJ' = IF ok THEN eJ + 1 ELSE eJ
        /\ ePc' = IF ok THEN ePc ELSE "done"
        /\ eRet' = IF ok THEN eRet ELSE "err"
    /\ UNCHANGED <<ePools, eListeners, eI, eBackends>>
    /\ UNCHANGED notLb

\* return self.region.DeleteLoadBalancer(self.GetId())
LbDeleteLoadBalancer ==
    /\ ePc = "listeners"
    /\ eJ > Len(eListeners)
    /\ \E ok \in BOOLEAN :
        /\ eLog' = IF ok THEN Append(eLog, Op("DeleteLoadBalancer", 0, 0)) ELSE eLog
        /\ eRet' = IF ok THEN "ok" ELSE "err"
    /\ ePc' = "done"
    /\ UNCHANGED <<ePools, eListeners, eI, eJ, eBackends>>
    /\ UNCHANGED notLb

InitLb ==
    /\ ePc = "pools"
    /\ ePools \in SeqsUpTo(LbPools, MaxPools)
    /\ eListeners \in { [ j \in 1..n |-> j ] : n \in 0..MaxListeners }
    /\ eI = 1
    /\ eJ = 1
    /\ eBackends = <<>>
    /\ eLog = <<>>
    /\ eRet = "none"
    /\ HostIdle
    /\ StopIdle
    /\ StartIdle
    /\ UnifyIdle
    /\ MemIdle
    /\ LaterIdle
    /\ ArpIdle
    /\ UsbIdle
    /\ lockHeld = FALSE
    /\ CreateIdle
    /\ DeployIdle
    /\ RebuildIdle
    /\ UndeployIdle

NextLb ==
    \/ LbGetBackends
    \/ LbRemoveBackend
    \/ LbGetBackendGroup
    \/ LbDeleteHealthCheck
    \/ LbDeleteBackendGroup
    \/ LbPoolsDone
    \/ LbDeleteElbListener
    \/ LbDeleteLoadBalancer

SpecLb == InitLb /\ [][NextLb]_vars

----------------------------------------------------------------------------
(* SLoadbalancer.Delete: claim C30 *)

\* what has to be done for the i-th pool, in order: its backends, its health
\* monitor when it has one, the pool
LbPoolOps(i) ==
    [ j \in 1..ePools[i].backends |-> Op("RemoveLoadBalancerBackend", i, j) ]
    \o (IF ePools[i].monitor THEN << Op("DeleteLoadbalancerHealthCheck", i, 0) >> ELSE <<>>)
    \o << Op("DeleteLoadBalancerBackendGroup", i, 0) >>

\* the same for the pools from the i-th on
RECURSIVE LbPoolsOpsFrom(_)
LbPoolsOpsFrom(i) ==
    IF i > Len(ePools) THEN <<>> ELSE LbPoolOps(i) \o LbPoolsOpsFrom(i + 1)

\* everything that comes before the load balancer's own deletion
LbOpsBefore ==
    LbPoolsOpsFrom(1) \o [ j \in 1..Len(eListeners) |-> Op("DeleteElbListener", 0, j) ]

LbDeleted == \E p \in 1..Len(eLog) : eLog[p] = Op("DeleteLoadBalancer", 0, 0)

\* C30: the load balancer is deleted only when, pool by pool, all backends,
\* then the health monitor if there is one, then the pool were deleted, and
\* then every listener; what has been done is at all times a beginning of
\* that order; a step that fails ends Delete with an error, nothing is done
\* after it and the load balancer is not deleted.
C30_LoadBalancerDeletedLast ==
    /\ Len(eLog) <= Len(LbOpsBefore) + 1
    /\ \A p \in 1..Len(eLog) :
          eLog[p] = (IF p <= Len(LbOpsBefore) THEN LbOpsBefore[p] ELSE Op("DeleteLoadBalancer", 0, 0))
    /\ eRet = "ok" <=> LbDeleted
    /\ eRet = "err" => ePc = "done" /\ ~LbDeleted
    /\ ePc = "done" => eRet \in {"ok", "err"}

\* two pools, backends, a health monitor and listeners, all deleted
C30_Witness ==
    /\ eRet = "ok"
    /\ Len(ePools) = 2
    /\ ePools[1].backends = 2
    /\ ePools[1].monitor
    /\ ~ePools[2].monitor
    /\ Len(eListeners) = 2
    /\ Len(eLog) = 8
====
